---- MODULE Spec2Model ----
(***************************************************************************)
(* Model of the news pipeline of antishmanna-site:                         *)
(*   - the Cluster operation  (src/app/api/cluster/llm/route.ts, POST)     *)
(*   - the Ingest operation   (src/app/api/ingest/route.ts, runIngestion)  *)
(* The relational store (Supabase) is shared by both operations.           *)
(***************************************************************************)
EXTENDS Integers, Sequences, FiniteSets, TLC

\* ------------------------------------------------------------------------
\* Bounds of the model
\* ------------------------------------------------------------------------
\* most clusters in one upstream (LLM) result
MaxClusters == 2
\* most items one feed returns (failure-focused runs)
MaxItems == 2
\* most items one feed returns (item-focused, fetch-focused, overlapping runs)
MaxItemsFew == 1
\* most entries of top_summaries in one upstream result
MaxSummaries == 2
\* largest rank number the upstream result declares
MaxRank == 2
\* elements of an html document
MaxNodes == 2

\* ------------------------------------------------------------------------
\* JavaScript values: a number, undefined, null, NaN
\* ------------------------------------------------------------------------
Num(n) == [t |-> "num", v |-> n]
Undef  == [t |-> "undef", v |-> 0]
Null   == [t |-> "null", v |-> 0]
NaN    == [t |-> "nan", v |-> 0]
\* a string that is not a numeral
Str    == [t |-> "str", v |-> 0]

\* Number(x): undefined -> NaN, null -> 0, a number -> itself, "abc" -> NaN
Number(x) ==
    CASE x.t = "num"   -> x
      [] x.t = "null"  -> Num(0)
      [] OTHER         -> NaN

\* Number.isFinite(x) for an x that is already a number or NaN
IsFinite(x) == x.t = "num"

\* x ?? y
Coalesce(x, y) == IF x.t \in {"undef", "null"} THEN y ELSE x

Min2(a, b) == IF a < b THEN a ELSE b
Max2(a, b) == IF a > b THEN a ELSE b

\* Array.prototype.map and .filter on sequences
MapSeq(s, F(_)) == [k \in 1..Len(s) |-> F(s[k])]

\* all sequences over S of length at most n
RECURSIVE SeqsUpTo(_, _)
SeqsUpTo(S, n) ==
    IF n = 0 THEN {<<>>}
    ELSE LET shorter == SeqsUpTo(S, n - 1)
         IN  shorter \cup {Append(s, x) : s \in {q \in shorter : Len(q) = n - 1}, x \in S}

\* Array.prototype.sort((a, b) => a - b) on a sequence of integers
RECURSIVE SortAsc(_)
SortAsc(s) ==
    IF Len(s) = 0 THEN <<>>
    ELSE LET m == CHOOSE k \in 1..Len(s) : \A j \in 1..Len(s) : s[k] <= s[j]
             rest == [j \in 1..(Len(s) - 1) |-> IF j < m THEN s[j] ELSE s[j + 1]]
         IN  <<s[m]>> \o SortAsc(rest)

\* Array.prototype.slice(0, n)
Slice0(s, n) == SubSeq(s, 1, Min2(Len(s), n))

\* ------------------------------------------------------------------------
\* Program constants of the Cluster route
\* ------------------------------------------------------------------------
DEFAULT_WINDOW_HOURS == 12
DEFAULT_TOP_N == 8
\* text.slice(0, 2000) of the invalid-JSON response
RawLimit == 2000
\* the value of Map.get for a missing key (undefined), as a cluster id
NoId == 0

VARIABLES
    inv,                 \* Cluster invocations: id -> local state of POST
    cluster_runs,        \* table cluster_runs: set of run ids
    clusters,            \* table clusters: set of rows
    cluster_members,     \* table cluster_members: set of rows (unique pair)
    clusters_in_run,     \* table clusters_in_run: sequence of rows
    top_daily_clusters,  \* table top_daily_clusters: sequence of rows
    summaries,           \* table summaries: sequence of rows
    nextId,              \* next identifier the store generates
    articles,            \* table articles: set of rows (unique url)
    run                  \* Ingest invocations: id -> local state of runIngestion

storeVars == <<cluster_runs, clusters, cluster_members, clusters_in_run,
               top_daily_clusters, summaries, nextId>>
clusterVars == <<inv>>
ingestVars == <<articles, run>>
vars == <<inv, cluster_runs, clusters, cluster_members, clusters_in_run,
          top_daily_clusters, summaries, nextId, articles, run>>


\* ------------------------------------------------------------------------
\* Cluster route: pure helpers of POST
\* ------------------------------------------------------------------------
\* hours / top: Number.isFinite(Number(x)) ? clamp(lo, hi, Number(x)) : default
ClampParam(x, lo, hi, dflt) ==
    IF IsFinite(Number(x)) THEN Max2(lo, Min2(hi, Number(x).v)) ELSE dflt

\* a guard that lets a request without the header through
UnauthorizedOnlyIfPresent(req) == req.cronRequired /\ req.header = "wrong"

\* the request guard: CRON_REQUIRED and (!header || header !== CRON_SECRET)
Unauthorized(req) == req.cronRequired /\ req.header # "match"

\* a lookup by array position: the id of the cluster at index `key`
ClusterIdByIndexGet(cl, ids, key) ==
    IF key.t = "num" /\ key.v \in 1..Len(ids) THEN ids[key.v] ELSE NoId

\* clusterIdByRank.get(key): forEach sets c.rank -> id, a later cluster with
\* the same rank overwrites an earlier one; a missing key gives undefined
ClusterIdByRankGet(cl, ids, key) ==
    LET hits == {k \in 1..Len(cl) : cl[k].rank = key}
    IN  IF hits = {} THEN NoId
        ELSE ids[CHOOSE k \in hits : \A j \in hits : j <= k]

\* clusters.find((c) => c.rank === rk)?.total_score ?? 0, then Number(...)
FindTotalScore(cl, rk) ==
    LET hits == {k \in 1..Len(cl) : cl[k].rank = rk}
    IN  IF hits = {} THEN Num(0)
        ELSE Number(Coalesce(cl[CHOOSE k \in hits : \A j \in hits : k <= j].total_score,
                             Num(0)))

\* memberRows: clusters.flatMap((c, i) => c.member_ids.map(...))
RECURSIVE MemberRows(_, _)
MemberRows(cl, ids) ==
    IF Len(cl) = 0 THEN <<>>
    ELSE MemberRows(SubSeq(cl, 1, Len(cl) - 1), SubSeq(ids, 1, Len(cl) - 1))
         \o MapSeq(cl[Len(cl)].member_ids,
                   LAMBDA aid : [cluster_id |-> ids[Len(cl)], article_id |-> aid])

\* ranked entries numbered by array position instead of the declared rank
CirRowsRenumbered(runId, cl, ids) ==
    [k \in 1..Len(cl) |->
        [run_id      |-> runId,
         cluster_id  |-> ids[k],
         size        |-> Coalesce(cl[k].size, Num(Len(cl[k].member_ids))),
         sources_count   |-> Coalesce(cl[k].sources_count, Num(0)),
         freshness_score |-> Number(Coalesce(cl[k].freshness_score, Num(0))),
         total_score |-> Number(Coalesce(cl[k].total_score, Num(0))),
         rank        |-> Num(k),
         market_impact_score |-> Number(Coalesce(cl[k].market_impact_score, Num(0)))]]

\* cirRows: one clusters_in_run row per cluster, by array position; scores
\* are in units of 1/10000
CirRows(runId, cl, ids) ==
    [k \in 1..Len(cl) |->
        [run_id      |-> runId,
         cluster_id  |-> ids[k],
         size        |-> Coalesce(cl[k].size, Num(Len(cl[k].member_ids))),
         sources_count   |-> Coalesce(cl[k].sources_count, Num(0)),
         freshness_score |-> Number(Coalesce(cl[k].freshness_score, Num(0))),
         total_score |-> Number(Coalesce(cl[k].total_score, Num(0))),
         rank        |-> Number(Coalesce(cl[k].rank, Null)),
         market_impact_score |-> Number(Coalesce(cl[k].market_impact_score, Num(0)))]]

\* the finite numbers of a sequence of JS values, each through Number()
FiniteNumbers(s) == SelectSeq(MapSeq(s, Number), IsFinite)

\* topRanks: the summary list's ranks, or else the `top` lowest cluster ranks
TopRanks(cl, ts, top) ==
    IF Len(ts) > 0
    THEN FiniteNumbers(MapSeq(ts, LAMBDA s : s.cluster_rank))
    ELSE LET fin == FiniteNumbers(MapSeq(cl, LAMBDA c : c.rank))
             srt == SortAsc(MapSeq(fin, LAMBDA r : r.v))
         IN  MapSeq(Slice0(srt, top), Num)

\* topRows: one top_daily_clusters row per selected rank
TopRows(runId, cl, ids, ranks) ==
    MapSeq(ranks, LAMBDA rk :
        [run_id      |-> runId,
         cluster_id  |-> ClusterIdByRankGet(cl, ids, rk),
         rank        |-> rk,
         total_score |-> FindTotalScore(cl, rk)])

\* summariesRows: one row per top_summaries entry whose rank resolves
SummariesRows(runId, cl, ids, ts) ==
    LET cid(s) == ClusterIdByRankGet(cl, ids, Number(s.cluster_rank))
    IN  MapSeq(SelectSeq(ts, LAMBDA s : cid(s) # NoId),
               LAMBDA s : [run_id |-> runId, cluster_id |-> cid(s)])

\* a store call whose error is not checked: control always goes on
AfterStoreCallIgnored(failed, next) == next

\* `if (xErr) throw xErr` after a store call: control goes to the catch block
\* on an error and to the next step otherwise
AfterStoreCall(failed, next) == IF failed THEN "catch" ELSE next

\* a handler that writes the ranked entries before the memberships
StepAfterRankedFirst(step) ==
    CASE step = "run"       -> "clusters"
      [] step = "clusters"  -> "cir"
      [] step = "cir"       -> "members"
      [] step = "members"   -> "top"
      [] step = "top"       -> "summaries"
      [] OTHER              -> "respond"

\* the statement that follows each insert in the text of POST: 4) run,
\* 5) clusters, 6) cluster_members, 7) clusters_in_run, 8) top_daily_clusters,
\* 9) summaries, 10) the response
StepAfter(step) ==
    CASE step = "run"       -> "clusters"
      [] step = "clusters"  -> "members"
      [] step = "members"   -> "cir"
      [] step = "cir"       -> "top"
      [] step = "top"       -> "summaries"
      [] OTHER              -> "respond"

\* ------------------------------------------------------------------------
\* The store's constraints (spec.md section 3: the keys and uniqueness
\* constraints are enforced by the store)
\* ------------------------------------------------------------------------
\* cluster_members is unique on the pair (cluster_id, article_id)
MembersAccepted(rows, table) ==
    /\ \A j, k \in 1..Len(rows) : rows[j] = rows[k] => j = k
    /\ \A k \in 1..Len(rows) : rows[k] \notin table

\* clusters_in_run: rank is unique within a run
RankedAccepted(rows, table) ==
    /\ \A j, k \in 1..Len(rows) :
          (rows[j].run_id = rows[k].run_id /\ rows[j].rank = rows[k].rank) => j = k
    /\ \A k \in 1..Len(rows), m \in 1..Len(table) :
          ~(rows[k].run_id = table[m].run_id /\ rows[k].rank = table[m].rank)

\* ------------------------------------------------------------------------
\* Cluster route: the POST handler, one action per await
\* ------------------------------------------------------------------------
NoResp == [status |-> 0, ok |-> FALSE, runId |-> NoId, raw |-> <<>>, error |-> ""]

\* no request received yet
NoReq ==
    [cronRequired |-> FALSE, header |-> "", body |-> "", windowHours |-> Undef,
     topN |-> Undef]

\* const { windowHours, topN } = await req.json().catch(() => ({...})): the
\* field of a body that parsed to an object, undefined for a body that did not
\* parse
BodyField(req, x) == IF req.body = "unparseable" THEN Undef ELSE x

InvInit ==
    [pc |-> "start", req |-> NoReq, hours |-> 0, top |-> 0, queried |-> "",
     llmCalls |-> 0, clusters |-> <<>>,
     topSummaries |-> <<>>, runId |-> NoId, ids |-> <<>>,
     text |-> [kind |-> "", len |-> 0], resp |-> NoResp, failedAt |-> ""]

\* the catch block: { ok: false, error } with status 500
Caught(i, step) ==
    inv' = [inv EXCEPT ![i].pc = "done", ![i].failedAt = step,
                       ![i].resp = [NoResp EXCEPT !.status = 500, !.error = step]]

\* auth guard and request body (lines 211-235)
PostStart(i, D) ==
    /\ inv[i].pc = "start"
    /\ \E req \in D.requests :
          IF Unauthorized(req)
          THEN inv' = [inv EXCEPT ![i].pc = "done", ![i].req = req,
                          ![i].resp = [NoResp EXCEPT !.status = 401,
                                                     !.error = "unauthorized"]]
          ELSE IF req.body = "null"     \* destructuring null throws a TypeError
          THEN inv' = [inv EXCEPT ![i].pc = "done", ![i].req = req,
                          ![i].failedAt = "body",
                          ![i].resp = [NoResp EXCEPT !.status = 500, !.error = "body"]]
          ELSE inv' = [inv EXCEPT ![i].pc = "query", ![i].req = req,
                          ![i].hours = ClampParam(BodyField(req, req.windowHours),
                                                  1, 48, DEFAULT_WINDOW_HOURS),
                          ![i].top = ClampParam(BodyField(req, req.topN), 1, 12,
                                                DEFAULT_TOP_N)]
    /\ UNCHANGED storeVars

\* 1) fetch recent articles (lines 237-259)
PostQueryArticles(i) ==
    /\ inv[i].pc = "query"
    /\ \E outcome \in {"error", "empty", "rows"} :
          CASE outcome = "error" ->
                 inv' = [inv EXCEPT ![i].pc = "done", ![i].failedAt = "articles",
                            ![i].queried = outcome,
                            ![i].resp = [NoResp EXCEPT !.status = 500,
                                                       !.error = "articles"]]
            [] outcome = "empty" ->
                 inv' = [inv EXCEPT ![i].pc = "done", ![i].queried = outcome,
                            ![i].resp = [NoResp EXCEPT !.status = 200, !.ok = TRUE]]
            [] OTHER -> inv' = [inv EXCEPT ![i].pc = "llm", ![i].queried = outcome]
    /\ UNCHANGED storeVars

\* a completion call that is made again when it throws
AfterLLMCallRetried(threw) == IF threw THEN "llm" ELSE "parse"

\* the single `await openai.chat.completions.create(...)` inside the try
\* block: a throw goes to the catch block, a completion to the parse
AfterLLMCall(threw) == IF threw THEN "catch" ELSE "parse"

\* 3) the LLM call and the parse of its text (lines 270-305); llmCalls is a
\* history counter of the completion calls made
PostLLM(i, D) ==
    /\ inv[i].pc = "llm"
    /\ \/ IF AfterLLMCall(TRUE) = "catch"         \* the completion call throws
          THEN inv' = [inv EXCEPT ![i].pc = "done", ![i].failedAt = "llm",
                                  ![i].llmCalls = @ + 1,
                                  ![i].resp = [NoResp EXCEPT !.status = 500,
                                                             !.error = "llm"]]
          ELSE inv' = [inv EXCEPT ![i].pc = AfterLLMCall(TRUE),
                                  ![i].llmCalls = @ + 1]
       \/ \E text \in D.texts :
            LET got == [inv EXCEPT ![i].text = [kind |-> text.kind, len |-> text.len],
                                   ![i].llmCalls = @ + 1]
            IN  CASE text.kind = "invalid" ->           \* JSON.parse throws
                       inv' = [got EXCEPT ![i].pc = "done",
                                  ![i].resp = [NoResp EXCEPT !.status = 502,
                                      !.error = "LLM returned invalid JSON.",
                                      !.raw = <<Min2(text.len, RawLimit)>>]]
                  [] text.kind = "null" ->        \* parsed.clusters of null throws
                       inv' = [got EXCEPT ![i].pc = "done", ![i].failedAt = "parse",
                                  ![i].resp = [NoResp EXCEPT !.status = 500,
                                                             !.error = "parse"]]
                  [] Len(text.clusters) = 0 ->
                       inv' = [got EXCEPT ![i].pc = "done",
                                  ![i].resp = [NoResp EXCEPT !.status = 200,
                                                             !.ok = TRUE]]
                  [] OTHER ->
                       inv' = [got EXCEPT ![i].pc = "run",
                                  ![i].clusters = text.clusters,
                                  ![i].topSummaries = text.top_summaries]
    /\ UNCHANGED storeVars

\* a failure handler that deletes what the invocation wrote
RolledBack(i) ==
    LET mine == {inv[i].ids[k] : k \in 1..Len(inv[i].ids)} \ {NoId}
        others(table) == SelectSeq(table, LAMBDA r : r.run_id # inv[i].runId)
    IN  /\ cluster_runs' = cluster_runs \ {inv[i].runId}
        /\ clusters' = {c \in clusters : c.id \notin mine}
        /\ cluster_members' = {m \in cluster_members : m.cluster_id \notin mine}
        /\ clusters_in_run' = others(clusters_in_run)
        /\ top_daily_clusters' = others(top_daily_clusters)
        /\ summaries' = others(summaries)
        /\ nextId' = nextId

\* the store after an insert that returned an error: the insert wrote
\* nothing, and the catch block (lines 478-484) makes no store call
StoreAfterCatch(i) == UNCHANGED storeVars

\* 4) create the run snapshot (lines 307-330); runRow is null on an error
PostInsertRun(i) ==
    /\ inv[i].pc = "run"
    /\ \E failed \in BOOLEAN :
          /\ IF failed
             THEN StoreAfterCatch(i)
             ELSE /\ cluster_runs' = cluster_runs \cup {nextId}
                  /\ nextId' = nextId + 1
                  /\ UNCHANGED <<clusters, cluster_members, clusters_in_run,
                                 top_daily_clusters, summaries>>
          /\ IF AfterStoreCall(failed, StepAfter("run")) = "catch"
             THEN Caught(i, "run")
             ELSE inv' = [inv EXCEPT ![i].pc = StepAfter("run"),
                             ![i].runId = IF failed THEN NoId ELSE nextId]

\* ids taken from the head of the table instead of the rows just inserted
ExistingIds(n, first) == [k \in 1..n |-> k]

\* .insert(...).select("id, label"): the ids the store generated for the n
\* rows of this insert, in row order
InsertedIds(n, first) == [k \in 1..n |-> first + k - 1]

\* 5) insert clusters, capture the generated ids by position (lines 341-361);
\* insertedClusters?.[i]?.id is undefined when nothing was inserted
PostInsertClusters(i) ==
    /\ inv[i].pc = "clusters"
    /\ \E failed \in BOOLEAN :
          LET n == Len(inv[i].clusters)
              newIds == [k \in 1..n |->
                           IF failed THEN NoId ELSE InsertedIds(n, nextId)[k]]
          IN  /\ IF failed
                 THEN StoreAfterCatch(i)
                 ELSE /\ clusters' = clusters \cup
                            {[id |-> newIds[k], cluster_date |-> "today"] : k \in 1..n}
                      /\ nextId' = nextId + n
                      /\ UNCHANGED <<cluster_runs, cluster_members, clusters_in_run,
                                     top_daily_clusters, summaries>>
              /\ IF AfterStoreCall(failed, StepAfter("clusters")) = "catch"
                 THEN Caught(i, "clusters")
                 ELSE inv' = [inv EXCEPT ![i].pc = StepAfter("clusters"),
                                            ![i].ids = newIds]

\* 6) insert cluster_members (lines 363-377)
PostInsertMembers(i) ==
    /\ inv[i].pc = "members"
    /\ LET rows == MemberRows(inv[i].clusters, inv[i].ids)
       IN  IF Len(rows) = 0
           THEN inv' = [inv EXCEPT ![i].pc = StepAfter("members")] /\ UNCHANGED storeVars
           ELSE \E failed \in {~MembersAccepted(rows, cluster_members), TRUE} :
                  /\ IF failed
                     THEN StoreAfterCatch(i)
                     ELSE /\ cluster_members' = cluster_members \cup
                                {rows[k] : k \in 1..Len(rows)}
                          /\ UNCHANGED <<cluster_runs, clusters, clusters_in_run,
                                         top_daily_clusters, summaries, nextId>>
                  /\ IF AfterStoreCall(failed, StepAfter("members")) = "catch"
                     THEN Caught(i, "members")
                     ELSE inv' = [inv EXCEPT ![i].pc = StepAfter("members")]

\* 7) insert clusters_in_run (lines 379-397)
PostInsertCir(i) ==
    /\ inv[i].pc = "cir"
    /\ LET rows == CirRows(inv[i].runId, inv[i].clusters, inv[i].ids)
       IN  \E failed \in {~RankedAccepted(rows, clusters_in_run), TRUE} :
              /\ IF failed
                 THEN StoreAfterCatch(i)
                 ELSE /\ clusters_in_run' = clusters_in_run \o rows
                      /\ UNCHANGED <<cluster_runs, clusters, cluster_members,
                                     top_daily_clusters, summaries, nextId>>
              /\ IF AfterStoreCall(failed, StepAfter("cir")) = "catch"
                 THEN Caught(i, "cir")
                 ELSE inv' = [inv EXCEPT ![i].pc = StepAfter("cir")]

\* 8) insert top_daily_clusters (lines 399-424)
PostInsertTop(i) ==
    /\ inv[i].pc = "top"
    /\ LET rows == TopRows(inv[i].runId, inv[i].clusters, inv[i].ids,
                           TopRanks(inv[i].clusters, inv[i].topSummaries, inv[i].top))
       IN  IF Len(rows) = 0
           THEN inv' = [inv EXCEPT ![i].pc = StepAfter("top")] /\ UNCHANGED storeVars
           ELSE \E failed \in BOOLEAN :
                  /\ IF failed
                     THEN StoreAfterCatch(i)
                     ELSE /\ top_daily_clusters' = top_daily_clusters \o rows
                          /\ UNCHANGED <<cluster_runs, clusters, cluster_members,
                                         clusters_in_run, summaries, nextId>>
                  /\ IF AfterStoreCall(failed, StepAfter("top")) = "catch"
                     THEN Caught(i, "top")
                     ELSE inv' = [inv EXCEPT ![i].pc = StepAfter("top")]

\* the success response (lines 461-477)
Responded(i) ==
    [inv EXCEPT ![i].pc = "done",
                ![i].resp = [NoResp EXCEPT !.status = 200, !.ok = TRUE,
                                           !.runId = inv[i].runId]]

\* 9) insert summaries, 10) respond (lines 426-477)
PostInsertSummaries(i) ==
    /\ inv[i].pc = "summaries"
    /\ LET rows == SummariesRows(inv[i].runId, inv[i].clusters, inv[i].ids,
                                 inv[i].topSummaries)
       IN  IF Len(rows) = 0
           THEN inv' = Responded(i) /\ UNCHANGED storeVars
           ELSE \E failed \in BOOLEAN :
                  /\ IF failed
                     THEN StoreAfterCatch(i)
                     ELSE /\ summaries' = summaries \o rows
                          /\ UNCHANGED <<cluster_runs, clusters, cluster_members,
                                         clusters_in_run, top_daily_clusters, nextId>>
                  /\ IF AfterStoreCall(failed, StepAfter("summaries")) = "catch"
                     THEN Caught(i, "summaries")
                     ELSE inv' = Responded(i)

POST(i, D) ==
    \/ PostStart(i, D)
    \/ PostQueryArticles(i)
    \/ PostLLM(i, D)
    \/ PostInsertRun(i)
    \/ PostInsertClusters(i)
    \/ PostInsertMembers(i)
    \/ PostInsertCir(i)
    \/ PostInsertTop(i)
    \/ PostInsertSummaries(i)

\* ------------------------------------------------------------------------
\* Inputs of the Cluster operation
\* ------------------------------------------------------------------------
\* the rank field of an upstream cluster or summary: a number or absent
RankVals == {Undef} \cup {Num(n) : n \in 1..MaxRank}

UpstreamClusters ==
    [rank : RankVals, total_score : {Num(1)}, member_ids : {<<>>, <<1>>},
     size : {Undef}, sources_count : {Num(1)}, freshness_score : {Num(0)},
     market_impact_score : {Num(0)}]

UpstreamSummaries == [cluster_rank : RankVals]

\* the LLM's texts: not JSON, the JSON null, an object without a clusters
\* array, an object with clusters and top_summaries
UpstreamTexts ==
    {[kind |-> "invalid", len |-> n, clusters |-> <<>>, top_summaries |-> <<>>] :
        n \in {0, RawLimit - 1, RawLimit, RawLimit + 1}}
    \cup {[kind |-> k, len |-> 4, clusters |-> <<>>, top_summaries |-> <<>>] :
            k \in {"null", "noarray"}}
    \cup {[kind |-> "object", len |-> 4, clusters |-> cl, top_summaries |-> ts] :
            cl \in SeqsUpTo(UpstreamClusters, MaxClusters),
            ts \in SeqsUpTo(UpstreamSummaries, MaxSummaries)}

Requests ==
    [cronRequired : BOOLEAN, header : {"absent", "wrong", "match"},
     body : {"object"}, windowHours : {Undef}, topN : {Undef, Num(1)}]

\* persistence-focused invocations: a configured secret, every upstream text
ClusterInputs ==
    [invs |-> {1},
     requests |-> {q \in Requests : q.cronRequired /\ q.header # "absent"},
     texts |-> UpstreamTexts]

StoreInit ==
    /\ cluster_runs = {}
    /\ clusters = {}
    /\ cluster_members = {}
    /\ clusters_in_run = <<>>
    /\ top_daily_clusters = <<>>
    /\ summaries = <<>>
    /\ nextId = 1

ClusterInit ==
    /\ StoreInit
    /\ inv = [i \in ClusterInputs.invs |-> InvInit]
    /\ articles = {}
    /\ run = <<>>

ClusterNext ==
    /\ \E i \in ClusterInputs.invs : POST(i, ClusterInputs)
    /\ UNCHANGED ingestVars

SpecCluster == ClusterInit /\ [][ClusterNext]_vars

\* a short upstream result: one cluster, summarised
ShortTexts ==
    {[kind |-> "invalid", len |-> 4, clusters |-> <<>>, top_summaries |-> <<>>],
     [kind |-> "noarray", len |-> 4, clusters |-> <<>>, top_summaries |-> <<>>],
     [kind |-> "object", len |-> 4,
      clusters |-> <<[rank |-> Num(1), total_score |-> Num(1),
                      member_ids |-> <<1>>, size |-> Undef,
                      sources_count |-> Num(1), freshness_score |-> Num(0),
                      market_impact_score |-> Num(0)]>>,
      top_summaries |-> <<[cluster_rank |-> Num(1)]>>]}

\* what a body can carry in windowHours or topN: nothing, null, a string, a
\* number below, at, inside, and above the range
ParamVals ==
    {Undef, Null, Str} \cup {Num(n) : n \in {0 - 3, 0, 1, 10, 12, 13, 48, 49}}

\* parameter-focused invocations: every body of a request
ParamInputs ==
    [invs |-> {1},
     requests |-> [cronRequired : {FALSE}, header : {"absent"},
                   body : {"object", "unparseable", "null"},
                   windowHours : ParamVals, topN : ParamVals],
     texts |-> ShortTexts]

ParamInit ==
    /\ StoreInit
    /\ inv = [i \in ParamInputs.invs |-> InvInit]
    /\ articles = {}
    /\ run = <<>>

ParamNext ==
    /\ \E i \in ParamInputs.invs : POST(i, ParamInputs)
    /\ UNCHANGED ingestVars

SpecParams == ParamInit /\ [][ParamNext]_vars

\* clusters with market impact 0.7, 3 sources and freshness 0.9, of size 4 or
\* of undeclared size, whose total_score is the formula's value for size 4
\* (2.2097), another number, or absent
ScoredClusters ==
    [rank : {Num(n) : n \in 1..MaxRank},
     total_score : {Num(22097), Num(10000), Undef},
     member_ids : {<<1>>}, size : {Undef, Num(4)}, sources_count : {Num(3)},
     freshness_score : {Num(9000)}, market_impact_score : {Num(7000)}]

\* score-focused invocations
ScoreInputs ==
    [invs |-> {1},
     requests |-> {q \in Requests : q.cronRequired /\ q.header = "match"
                                     /\ q.topN = Undef},
     texts |-> {[kind |-> "object", len |-> 4, clusters |-> cl,
                 top_summaries |-> <<>>] :
                   cl \in SeqsUpTo(ScoredClusters, MaxClusters)}]

ScoreInit ==
    /\ StoreInit
    /\ inv = [i \in ScoreInputs.invs |-> InvInit]
    /\ articles = {}
    /\ run = <<>>

ScoreNext ==
    /\ \E i \in ScoreInputs.invs : POST(i, ScoreInputs)
    /\ UNCHANGED ingestVars

SpecScores == ScoreInit /\ [][ScoreNext]_vars

\* clusters of one, two different, or twice the same member
MemberClusters ==
    [rank : {Num(n) : n \in 1..MaxRank}, total_score : {Num(1)},
     member_ids : {<<1>>, <<1, 2>>, <<1, 1>>},
     size : {Undef}, sources_count : {Num(1)}, freshness_score : {Num(0)},
     market_impact_score : {Num(0)}]

\* membership-focused invocations
MemberInputs ==
    [invs |-> {1},
     requests |-> {q \in Requests : q.cronRequired /\ q.header = "match"
                                     /\ q.topN = Undef},
     texts |-> {[kind |-> "object", len |-> 4, clusters |-> cl,
                 top_summaries |-> <<>>] :
                   cl \in SeqsUpTo(MemberClusters, MaxClusters)}]

MemberInit ==
    /\ StoreInit
    /\ inv = [i \in MemberInputs.invs |-> InvInit]
    /\ articles = {}
    /\ run = <<>>

MemberNext ==
    /\ \E i \in MemberInputs.invs : POST(i, MemberInputs)
    /\ UNCHANGED ingestVars

SpecMembers == MemberInit /\ [][MemberNext]_vars

\* ------------------------------------------------------------------------
\* Rows of the store that belong to one Cluster invocation
\* ------------------------------------------------------------------------
PersistSteps == <<"run", "clusters", "members", "cir", "top", "summaries">>

\* position of a step in the persistence order; 0 for a step before it
StepNo(step) ==
    IF \E n \in 1..Len(PersistSteps) : PersistSteps[n] = step
    THEN CHOOSE n \in 1..Len(PersistSteps) : PersistSteps[n] = step
    ELSE 0

OfRun(table, runId) == SelectSeq(table, LAMBDA r : r.run_id = runId)

IdsOf(i) == {inv[i].ids[k] : k \in 1..Len(inv[i].ids)} \ {NoId}

\* some row written by step `step` of invocation i is in the store
WrittenBy(i, step) ==
    CASE step = "run"       -> inv[i].runId \in cluster_runs
      [] step = "clusters"  -> \E c \in clusters : c.id \in IdsOf(i)
      [] step = "members"   -> \E m \in cluster_members : m.cluster_id \in IdsOf(i)
      [] step = "cir"       -> inv[i].runId # NoId
                               /\ Len(OfRun(clusters_in_run, inv[i].runId)) > 0
      [] step = "top"       -> inv[i].runId # NoId
                               /\ Len(OfRun(top_daily_clusters, inv[i].runId)) > 0
      [] step = "summaries" -> inv[i].runId # NoId
                               /\ Len(OfRun(summaries, inv[i].runId)) > 0
      [] OTHER              -> FALSE

\* every persistence step of invocation i wrote its full set of rows
FullSnapshot(i) ==
    LET v == inv[i]
        members == MemberRows(v.clusters, v.ids)
    IN  /\ v.runId \in cluster_runs
        /\ Len(v.ids) = Len(v.clusters)
        /\ \A k \in 1..Len(v.ids) :
              [id |-> v.ids[k], cluster_date |-> "today"] \in clusters
        /\ \A k \in 1..Len(members) : members[k] \in cluster_members
        /\ OfRun(clusters_in_run, v.runId) = CirRows(v.runId, v.clusters, v.ids)
        /\ OfRun(top_daily_clusters, v.runId) =
              TopRows(v.runId, v.clusters, v.ids,
                      TopRanks(v.clusters, v.topSummaries, v.top))
        /\ OfRun(summaries, v.runId) =
              SummariesRows(v.runId, v.clusters, v.ids, v.topSummaries)

\* ------------------------------------------------------------------------
\* Claims about the Cluster operation
\* ------------------------------------------------------------------------
\* number of clusters_in_run rows of run `runId` that carry rank rk
RankedWithRank(runId, rk) ==
    Cardinality({m \in 1..Len(clusters_in_run) :
                   clusters_in_run[m].run_id = runId /\ clusters_in_run[m].rank = rk})

\* C1: in every run, every rank stored in a top_daily_clusters row, and every
\* rank through which a summaries row was attached, is the rank of exactly one
\* clusters_in_run row of that run.
C1_RankConsistency ==
    \A i \in DOMAIN inv :
        LET v == inv[i]
        IN  v.runId # NoId =>
              /\ \A k \in 1..Len(top_daily_clusters) :
                    top_daily_clusters[k].run_id = v.runId =>
                       RankedWithRank(v.runId, top_daily_clusters[k].rank) = 1
              /\ WrittenBy(i, "summaries") =>
                    \A k \in 1..Len(v.topSummaries) :
                       LET rk == Number(v.topSummaries[k].cluster_rank)
                       IN  ClusterIdByRankGet(v.clusters, v.ids, rk) # NoId =>
                              RankedWithRank(v.runId, rk) = 1

\* C4: a response ok=true with a runId is given only when every persistence
\* step wrote its full set of rows; when a step failed the response is
\* ok=false and neither that step nor any later one has written a row.
C4_NoPartialSuccess ==
    \A i \in DOMAIN inv :
        LET v == inv[i]
        IN  /\ (v.resp.ok /\ v.resp.runId # NoId) => FullSnapshot(i)
            /\ v.failedAt # "" =>
                  /\ v.pc = "done" /\ ~v.resp.ok /\ v.resp.runId = NoId
                  /\ \A n \in 1..Len(PersistSteps) :
                        n >= StepNo(v.failedAt) => ~WrittenBy(i, PersistSteps[n])

\* C4 witness: the top-selection insert failed after the run, its clusters and
\* its ranked entries had been written.
C4_Witness ==
    \E i \in DOMAIN inv :
        /\ inv[i].failedAt = "top"
        /\ WrittenBy(i, "run") /\ WrittenBy(i, "clusters") /\ WrittenBy(i, "cir")

\* C10: an unparseable LLM text gives ok=false with the raw text cut to 2000
\* characters; a parsed result with zero clusters or no clusters array gives
\* ok=true without a runId; in both cases the run wrote no row.
C10_UpstreamOutcomes ==
    \A i \in DOMAIN inv :
        LET v == inv[i]
        IN  (v.pc = "done" /\ v.text.kind # "") =>
              /\ v.text.kind = "invalid" =>
                    /\ ~v.resp.ok
                    /\ v.resp.raw = <<Min2(v.text.len, 2000)>>
                    /\ \A n \in 1..Len(PersistSteps) : ~WrittenBy(i, PersistSteps[n])
              /\ (v.text.kind # "invalid" /\ Len(v.clusters) = 0) =>
                    /\ v.resp.ok /\ v.resp.runId = NoId
                    /\ \A n \in 1..Len(PersistSteps) : ~WrittenBy(i, PersistSteps[n])

\* C17: an invocation calls the LLM at most once; it does not call it when
\* the article query gave no titled article (or failed); a row of the
\* invocation is in the store, and a step changes the store, only after the
\* one call has returned.
C17_SingleLLMCall ==
    /\ [](\A i \in DOMAIN inv :
             /\ inv[i].llmCalls <= 1
             /\ inv[i].queried \in {"empty", "error"} =>
                   inv[i].llmCalls = 0 /\ inv[i].text.kind = ""
             /\ \A n \in 1..Len(PersistSteps) :
                   WrittenBy(i, PersistSteps[n]) =>
                      inv[i].llmCalls = 1 /\ inv[i].pc \notin {"query", "llm"})
    /\ [][storeVars' # storeVars =>
             \E i \in DOMAIN inv :
                /\ inv'[i] # inv[i]
                /\ inv[i].llmCalls = 1 /\ inv'[i].llmCalls = 1
                /\ StepNo(inv[i].pc) > 0]_vars

\* C17 witness: an invocation that found articles, called the LLM once and
\* wrote its summaries.
C17_Witness ==
    \E i \in DOMAIN inv :
        /\ inv[i].queried = "rows" /\ inv[i].llmCalls = 1
        /\ WrittenBy(i, "summaries")

\* the rows step `step` of invocation i has to write (the membership, top and
\* summary inserts are skipped for an empty row list)
HasRows(i, step) ==
    LET v == inv[i]
    IN  CASE step = "members"   -> Len(MemberRows(v.clusters, v.ids)) > 0
          [] step = "top"       ->
               Len(TopRanks(v.clusters, v.topSummaries, v.top)) > 0
          [] step = "summaries" ->
               Len(SummariesRows(v.runId, v.clusters, v.ids, v.topSummaries)) > 0
          [] OTHER              -> TRUE

\* C18: the rows of an invocation are written in the order ClusterRun,
\* Cluster, ClusterMembership, RankedClusterEntry, TopSelection, Summary: a
\* step's rows are in the store only when every earlier step that had rows to
\* write has written them, a step the handler has not passed has written
\* nothing, and the handler goes from a step to the next one of the order (or
\* to its end), never back and never to the same step again.
C18_StepOrder ==
    /\ [](\A i \in DOMAIN inv : \A n \in 1..Len(PersistSteps) :
             /\ WrittenBy(i, PersistSteps[n]) =>
                   \A m \in 1..(n - 1) :
                      HasRows(i, PersistSteps[m]) => WrittenBy(i, PersistSteps[m])
             /\ (StepNo(inv[i].pc) > 0 /\ n >= StepNo(inv[i].pc)) =>
                   ~WrittenBy(i, PersistSteps[n]))
    /\ [][\A i \in DOMAIN inv :
             (inv'[i] # inv[i] /\ StepNo(inv[i].pc) > 0) =>
                \/ inv'[i].pc = "done"
                \/ StepNo(inv'[i].pc) = StepNo(inv[i].pc) + 1]_vars

\* C18 witness: an invocation whose six steps all wrote rows.
C18_Witness ==
    \E i \in DOMAIN inv :
        /\ inv[i].resp.ok
        /\ \A n \in 1..Len(PersistSteps) : WrittenBy(i, PersistSteps[n])

\* the rows the steps before `step` wrote for invocation i are all in the store
EarlierRowsKept(i, step) ==
    LET v == inv[i]
        n == StepNo(step)
        members == MemberRows(v.clusters, v.ids)
    IN  /\ n > 1 => v.runId \in cluster_runs
        /\ n > 2 => /\ Len(v.ids) = Len(v.clusters)
                    /\ \A k \in 1..Len(v.ids) :
                          [id |-> v.ids[k], cluster_date |-> "today"] \in clusters
        /\ n > 3 => \A k \in 1..Len(members) : members[k] \in cluster_members
        /\ n > 4 => OfRun(clusters_in_run, v.runId) =
                        CirRows(v.runId, v.clusters, v.ids)
        /\ n > 5 => OfRun(top_daily_clusters, v.runId) =
                        TopRows(v.runId, v.clusters, v.ids,
                                TopRanks(v.clusters, v.topSummaries, v.top))

\* C19: the step in which a persistence step of an invocation fails, and the
\* failure is handled, changes no table of the store; from then on every row
\* the earlier steps of the invocation wrote is in the store.
C19_NoRollback ==
    /\ [](\A i \in DOMAIN inv :
             StepNo(inv[i].failedAt) > 0 => EarlierRowsKept(i, inv[i].failedAt))
    /\ [][\A i \in DOMAIN inv :
             (inv[i].failedAt = "" /\ inv'[i].failedAt # "") =>
                UNCHANGED storeVars]_vars

\* C19 witness: the summaries insert failed after the five earlier steps had
\* written rows.
C19_Witness ==
    \E i \in DOMAIN inv :
        /\ inv[i].failedAt = "summaries"
        /\ \A n \in 1..5 : WrittenBy(i, PersistSteps[n])

\* every cluster declares a number as its rank, and no two the same
DistinctRanks(cl) ==
    /\ \A k \in 1..Len(cl) : cl[k].rank.t = "num"
    /\ \A j, k \in 1..Len(cl) : cl[j].rank = cl[k].rank => j = k

\* the array positions of the clusters that declare rank rk
Declaring(cl, rk) == {k \in 1..Len(cl) : cl[k].rank = rk}

\* the summaries, by the id captured at the position of the cluster that
\* declares each summary's rank; a summary whose rank no cluster declares
\* gives no row
RECURSIVE SummariesByDeclaredRank(_, _, _, _)
SummariesByDeclaredRank(runId, cl, ids, ts) ==
    IF Len(ts) = 0 THEN <<>>
    ELSE LET ks == Declaring(cl, Number(ts[1].cluster_rank))
             rest == SummariesByDeclaredRank(runId, cl, ids, Tail(ts))
         IN  IF ks = {} THEN rest
             ELSE <<[run_id |-> runId, cluster_id |-> ids[CHOOSE k \in ks : TRUE]]>>
                  \o rest

\* C20: for an upstream result whose clusters carry pairwise distinct ranks,
\* every top_daily_clusters row of the run with rank r holds the id that was
\* captured at the array position of the cluster declaring rank r, and the
\* summaries rows of the run hold, in order, the ids captured at the positions
\* of the clusters declaring the summaries' ranks.
C20_RankKeyedResolution ==
    \A i \in DOMAIN inv :
        LET v == inv[i]
        IN  (v.runId # NoId /\ DistinctRanks(v.clusters)) =>
              /\ \A m \in 1..Len(top_daily_clusters) :
                    LET row == top_daily_clusters[m]
                    IN  row.run_id = v.runId =>
                          \A k \in Declaring(v.clusters, row.rank) :
                             row.cluster_id = v.ids[k]
              /\ WrittenBy(i, "summaries") =>
                    OfRun(summaries, v.runId) =
                       SummariesByDeclaredRank(v.runId, v.clusters, v.ids,
                                               v.topSummaries)

\* C20 witness: the upstream result lists the cluster of rank 2 before the
\* cluster of rank 1, and the run wrote a top selection and a summary for
\* rank 1.
C20_Witness ==
    \E i \in DOMAIN inv :
        LET v == inv[i]
        IN  /\ Len(v.clusters) = 2
            /\ v.clusters[1].rank = Num(2) /\ v.clusters[2].rank = Num(1)
            /\ Len(v.topSummaries) > 0 /\ v.topSummaries[1].cluster_rank = Num(1)
            /\ \E m \in 1..Len(top_daily_clusters) :
                  /\ top_daily_clusters[m].run_id = v.runId
                  /\ top_daily_clusters[m].rank = Num(1)
                  /\ top_daily_clusters[m].cluster_id = v.ids[2]
            /\ \E m \in 1..Len(summaries) :
                  summaries[m].run_id = v.runId /\ summaries[m].cluster_id = v.ids[2]

\* C21: a top_summaries entry whose cluster_rank no input cluster declares is
\* skipped: the top_daily_clusters rows of a run are the rows of the selected
\* ranks that resolve to a cluster id, so that no row of the run is without a
\* cluster id.
C21_UnresolvableSkipped ==
    \A i \in DOMAIN inv :
        LET v == inv[i]
            selected == TopRows(v.runId, v.clusters, v.ids,
                                TopRanks(v.clusters, v.topSummaries, v.top))
        IN  (v.runId # NoId /\ Len(v.topSummaries) > 0) =>
              /\ \A m \in 1..Len(top_daily_clusters) :
                    top_daily_clusters[m].run_id = v.runId =>
                       top_daily_clusters[m].cluster_id # NoId
              /\ WrittenBy(i, "top") =>
                    OfRun(top_daily_clusters, v.runId) =
                       SelectSeq(selected, LAMBDA r : r.cluster_id # NoId)

\* some cluster lists an article id more than once
RepeatsMember(cl) ==
    \E k \in 1..Len(cl) : \E a, b \in 1..Len(cl[k].member_ids) :
        a # b /\ cl[k].member_ids[a] = cl[k].member_ids[b]

\* C22: an invocation whose upstream result repeats an article id inside a
\* cluster can pass its membership step without a failure, and whenever its
\* memberships are written the store holds the pair of every listed member.
C22_DuplicateMembershipNoOp ==
    \A i \in DOMAIN inv :
        LET v == inv[i]
            rows == MemberRows(v.clusters, v.ids)
        IN  RepeatsMember(v.clusters) =>
              /\ v.pc = "members" =>
                    ENABLED (PostInsertMembers(i) /\ inv'[i].failedAt = "")
              /\ WrittenBy(i, "members") =>
                    \A k \in 1..Len(rows) : rows[k] \in cluster_members

\* the ranks of the top_daily_clusters rows of a run, in row order
SelectedRanks(runId) ==
    MapSeq(OfRun(top_daily_clusters, runId), LAMBDA r : r.rank)

\* C23: the ranks selected by a run that wrote its top selection are the
\* finite cluster_rank values of a non-empty top_summaries list in list
\* order, or else the lowest finite cluster ranks in ascending order, as many
\* as topN allows; in both cases they are at most topN.
C23_TopNSelection ==
    \A i \in DOMAIN inv :
        LET v == inv[i]
            ranks == SelectedRanks(v.runId)
            listed == SelectSeq(MapSeq(v.topSummaries,
                                       LAMBDA t : Number(t.cluster_rank)), IsFinite)
            finite == SelectSeq(MapSeq(v.clusters, LAMBDA c : Number(c.rank)),
                                IsFinite)
            lowest == SortAsc(MapSeq(finite, LAMBDA x : x.v))
            n == Min2(v.top, Len(finite))
        IN  WrittenBy(i, "top") =>
              /\ Len(v.topSummaries) > 0 => ranks = listed
              /\ Len(v.topSummaries) = 0 =>
                    ranks = [k \in 1..n |-> Num(lowest[k])]
              /\ Len(ranks) <= v.top

\* the cluster ids of the rows of run `runId` in a run-keyed table
ClusterIdsOf(table, runId) ==
    {OfRun(table, runId)[k].cluster_id : k \in 1..Len(OfRun(table, runId))}

\* C24: after a successful run that recorded a snapshot, the run has as many
\* summaries rows as top_daily_clusters rows, and the cluster ids of the two
\* sets of rows are the same.
C24_SummaryPerTopSelection ==
    \A i \in DOMAIN inv :
        LET v == inv[i]
        IN  (v.pc = "done" /\ v.resp.ok /\ v.resp.runId # NoId) =>
              /\ Len(OfRun(summaries, v.runId)) =
                    Len(OfRun(top_daily_clusters, v.runId))
              /\ ClusterIdsOf(summaries, v.runId) =
                    ClusterIdsOf(top_daily_clusters, v.runId)

\* C25: after a successful run on k clusters the store holds k clusters rows
\* with the k ids generated for the run and k clusters_in_run rows of the run;
\* the i-th of these references the id generated for the i-th input cluster
\* and, where that cluster declares a rank, carries that rank.
C25_OneEntryPerCluster ==
    \A i \in DOMAIN inv :
        LET v == inv[i]
            k == Len(v.clusters)
            entries == OfRun(clusters_in_run, v.runId)
        IN  (v.pc = "done" /\ v.resp.ok /\ v.resp.runId # NoId) =>
              /\ Len(v.ids) = k
              /\ Cardinality(IdsOf(i)) = k
              /\ Cardinality({c \in clusters : c.id \in IdsOf(i)}) = k
              /\ Len(entries) = k
              /\ \A n \in 1..k :
                    /\ entries[n].cluster_id = v.ids[n]
                    /\ v.clusters[n].rank.t = "num" =>
                          entries[n].rank = v.clusters[n].rank

\* C25 witness: a successful run on two clusters that declare the ranks 2 and
\* 1 in that order.
C25_Witness ==
    \E i \in DOMAIN inv :
        LET v == inv[i]
        IN  /\ v.pc = "done" /\ v.resp.ok /\ v.resp.runId # NoId
            /\ Len(v.clusters) = 2
            /\ v.clusters[1].rank = Num(2) /\ v.clusters[2].rank = Num(1)
            /\ Len(OfRun(clusters_in_run, v.runId)) = 2

\* 10000 * ln(n), rounded, for the small n of the model
Ln(n) ==
    CASE n = 1 -> 0
      [] n = 2 -> 6931
      [] n = 3 -> 10986
      [] n = 4 -> 13863
      [] n = 5 -> 16094
      [] OTHER -> 17918

\* the scoring formula of the prompt, total_score = market_impact_score
\* + 0.4*log1p(cluster_size) + 0.3*log1p(unique_sources) + 0.5*freshness, in
\* units of 1/100000 for scores given in units of 1/10000
ImpactScore(market_impact_score, size, sources_count, freshness_score) ==
    10 * market_impact_score + 4 * Ln(1 + size) + 3 * Ln(1 + sources_count)
    + 5 * freshness_score

\* C14: the total_score stored in every clusters_in_run row is the formula's
\* value (within 0.0001) for the size, sources_count, freshness_score and
\* market_impact_score stored in that row.
C14_ScoreRederived ==
    \A k \in 1..Len(clusters_in_run) :
        LET row == clusters_in_run[k]
            d == 10 * row.total_score.v
                 - ImpactScore(row.market_impact_score.v, row.size.v,
                               row.sources_count.v, row.freshness_score.v)
        IN  row.total_score.t = "num" /\ d <= 10 /\ 0 - d <= 10

\* the invocation got its parameters: authorized, and the body destructured
HasParams(v) == v.pc # "start" /\ v.resp.status # 401 /\ v.failedAt # "body"

\* the claimed effective value of a parameter: a number clamped into lo..hi,
\* the default for a field that is absent or not a number (null included)
ClaimedParam(req, x, lo, hi, dflt) ==
    IF req.body = "object" /\ x.t = "num"
    THEN (IF x.v < lo THEN lo ELSE IF x.v > hi THEN hi ELSE x.v)
    ELSE dflt

\* C13: the effective windowHours lies in 1..48 and the effective topN in
\* 1..12; a number outside the range is clamped to the nearest bound; an
\* absent or non-numeric field (null included) and a body that does not parse
\* give the defaults 12 and 8.
C13_RequestParameters ==
    \A i \in DOMAIN inv :
        LET v == inv[i]
        IN  HasParams(v) =>
              /\ v.hours \in 1..48 /\ v.top \in 1..12
              /\ v.hours = ClaimedParam(v.req, v.req.windowHours, 1, 48, 12)
              /\ v.top = ClaimedParam(v.req, v.req.topN, 1, 12, 8)

\* ========================================================================
\* Ingest route
\* ========================================================================
\* Texts are modelled by their shape: `pad` characters of leading/trailing
\* whitespace, `core` characters of body (single-spaced, no edge whitespace)
\* and, when attr holds, a trailing wire-service attribution " Reuters".
\* NoText is null / undefined.
Text(pad, core, attr) == [null |-> FALSE, pad |-> pad, core |-> core, attr |-> attr]
NoText == [null |-> TRUE, pad |-> 0, core |-> 0, attr |-> FALSE]

\* the characters of the suffix " Reuters" that cleanContent strips
AttributionLen == 8

\* text.length, text.trim().length
Length(t) == t.pad + t.core + (IF t.attr THEN AttributionLen ELSE 0)
TrimLength(t) == t.core + (IF t.attr THEN AttributionLen ELSE 0)

\* !text : null, undefined or the empty string
Falsy(t) == t.null \/ Length(t) = 0

\* a || b on texts
OrElse(a, b) == IF Falsy(a) THEN b ELSE a

\* cleanContent: strip the trailing attribution, collapse whitespace, trim
cleanContent(t) == IF Falsy(t) THEN t ELSE Text(0, t.core, FALSE)

\* the literal "(no summary)"
NoSummary == Text(0, 12, FALSE)

\* unwrapGoogleNewsLink: the url parameter of a news.google.com link
unwrapGoogleNewsLink(link) ==
    IF link.gnews /\ link.real # "" THEN link.real ELSE link.href

\* urlHash: sha256 of the trimmed href, a function of the url
urlHash(href) == <<"sha256", href>>

\* getDomain: the host of the url
getDomain(href) == <<"host", href>>

\* extractFullText (lines 92-130): null on a thrown fetch or parser error and
\* on a non-2xx status; else the readability text, or the tag-stripped html
\* when that has fewer than 200 characters; null unless 200 characters long
MIN_FULLTEXT == 200

\* an extraction that gives up when the readability text is thin
extractFullTextNoFallback(page) ==
    IF page.fetch # "ok" \/ page.parser = "throws" THEN NoText
    ELSE IF ~Falsy(page.readable) /\ Length(page.readable) >= 200
         THEN page.readable ELSE NoText

extractFullText(page) ==
    IF page.fetch # "ok" \/ page.parser = "throws" THEN NoText
    ELSE LET text == IF Falsy(page.readable) \/ Length(page.readable) < 200
                     THEN page.stripped ELSE page.readable
         IN  IF ~Falsy(text) /\ Length(text) >= 200 THEN text ELSE NoText

\* FULLTEXT_SOURCES: the sources that always get full-text extraction
FULLTEXT_SOURCES == {"Reuters", "AP News", "Bloomberg"}

TWELVE_HOURS == 12 * 60 * 60 * 1000

\* ts = isoDate ?? pubDate ?? null; published_at = parseISO(ts).toISOString(),
\* null when ts is absent or parseISO gives an invalid date (toISOString throws)
PublishedAt(item) ==
    LET ts == IF item.isoDate.kind # "absent" THEN item.isoDate ELSE item.pubDate
    IN  IF ts.kind = "iso" THEN ts ELSE [kind |-> "absent", age |-> 0]

\* a filter that also drops the item at the window edge
StaleInclusive(published_at) ==
    published_at.kind # "absent" /\ published_at.age >= 12 * 60 * 60 * 1000

\* the freshness filter: published_at && Date.now() - published_at > 12h
Stale(published_at) ==
    published_at.kind # "absent" /\ published_at.age > TWELVE_HOURS

\* the feed-provided content: contentSnippet || content || null
FeedSnippet(item) == OrElse(item.contentSnippet, OrElse(item.content, NoText))

\* does the source policy call extractFullText for this item (lines 281-297)
NeedsExtraction(source, content) ==
    IF source \in FULLTEXT_SOURCES THEN TRUE
    ELSE Falsy(content) \/ TrimLength(content) < 40

\* content after the extraction attempt (lines 284-295)
Upgraded(content, full) ==
    IF ~Falsy(full) /\ Length(full) >= MIN_FULLTEXT THEN full ELSE content

\* a final guard without the cleaning
FinalContentUncleaned(content, title) ==
    IF Falsy(content) \/ TrimLength(content) = 0
    THEN OrElse(title, NoSummary) ELSE content

\* final guard and cleaning (lines 299-305)
FinalContent(content, title) ==
    cleanContent(IF Falsy(content) \/ TrimLength(content) = 0
                 THEN OrElse(title, NoSummary) ELSE content)

\* the content floor: content.length < 70
CONTENT_FLOOR == 70
TooShort(content) == Length(content) < CONTENT_FLOOR

\* ------------------------------------------------------------------------
\* Ingest route: state of one invocation
\* ------------------------------------------------------------------------
NoDate == [kind |-> "absent", age |-> 0]

\* the locals of one pass of the item loop; `page` records what the page
\* fetch and its parse gave to extractFullText, `disp` how the pass ended
NoItem ==
    [shape |-> "", url |-> "", hash |-> <<>>, title |-> NoText,
     published_at |-> NoDate, snippet |-> NoText, extracted |-> FALSE,
     full |-> NoText, content |-> NoText, articleId |-> NoId, disp |-> "",
     source |-> "", ts |-> NoDate, f |-> 0, errIdx |-> 0,
     page |-> [fetch |-> "", parser |-> "", readable |-> NoText,
               stripped |-> NoText]]

\* fetchFeed's locals while it runs, its settled result afterwards
FeedRec(st, i, lastErr, wait, n, reason) ==
    [st |-> st, i |-> i, lastErr |-> lastErr, wait |-> wait, n |-> n,
     reason |-> reason]

NoIngestResp == [status |-> 0, json |-> FALSE, ok |-> FALSE]

\* the locals of runIngestion; `seen` is a history counter of the loop bodies
\* entered (the code keeps no such count), fi and ii are the loop positions,
\* `inflight` counts the extraction and store requests of the item loop that
\* were sent and whose response has not been taken yet
RunInit ==
    [pc |-> "start", req |-> [secretSet |-> FALSE, header |-> ""], clusterId |-> NoId, feeds |-> <<>>, fi |-> 0, ii |-> 0,
     cur |-> NoItem, seen |-> 0, inflight |-> 0, articlesUpserted |-> 0,
     linksUpserted |-> 0, errors |-> <<>>, resp |-> NoIngestResp]

\* isAuthorized (lines 22-26)
isAuthorized(req) == IF req.secretSet THEN req.header = "match" ELSE TRUE

\* retries = 2 (default parameter of fetchFeed), backoff base 600 ms
DefaultRetries == 2
BackoffBase == 600

\* a loop that runs once too often
LoopContinuesOffByOne(i, retries) == i <= retries + 1

\* the loop condition of fetchFeed: for (let i = 0; i <= retries; i++)
LoopContinues(i, retries) == i <= retries

\* the handler's catch: { ok: false, error } with status 500 (lines 374-378)
Raised(R) ==
    [R EXCEPT !.pc = "done",
              !.resp = [status |-> 500, json |-> TRUE, ok |-> FALSE]]

\* a combinator that resolves with the first settled fetch
SettledAny(feeds) ==
    \E f \in 1..Len(feeds) : feeds[f].st \in {"fulfilled", "rejected"}

\* Promise.allSettled resolves when every fetch is fulfilled or rejected
Settled(feeds) ==
    \A f \in 1..Len(feeds) : feeds[f].st \in {"fulfilled", "rejected"}

\* Promise.allSettled(FEEDS.map(fetchFeed)): every fetch is started
FetchesStarted(R, feedNames) ==
    [R EXCEPT !.pc = "fetching",
              !.feeds = [f \in 1..Len(feedNames) |-> FeedRec("attempt", 0, "", 0, 0, <<>>)]]

\* result loops that stop at the first rejected result
RECURSIVE AdvanceStopAtRejected(_, _, _, _)
AdvanceStopAtRejected(R, feedNames, fi, ii) ==
    IF fi > Len(R.feeds)
    THEN [R EXCEPT !.pc = "done", !.fi = fi, !.ii = ii,
                   !.resp = [status |-> 200, json |-> TRUE, ok |-> TRUE]]
    ELSE IF R.feeds[fi].st = "rejected"
    THEN [R EXCEPT !.pc = "done", !.fi = fi, !.ii = ii,
                   !.errors = Append(@, [source |-> "fetch",
                                         error |-> R.feeds[fi].reason]),
                   !.resp = [status |-> 200, json |-> TRUE, ok |-> TRUE]]
    ELSE IF ii > R.feeds[fi].n
    THEN AdvanceStopAtRejected(R, feedNames, fi + 1, 1)
    ELSE [R EXCEPT !.pc = "item", !.fi = fi, !.ii = ii]

\* the result loops (lines 235-243, 362-365) from position (fi, ii) on: a
\* rejected result pushes a "fetch" error, an exhausted item list moves to the
\* next result, the end of the results returns the report
RECURSIVE Advance(_, _, _, _)
Advance(R, feedNames, fi, ii) ==
    IF fi > Len(R.feeds)
    THEN [R EXCEPT !.pc = "done", !.fi = fi, !.ii = ii,
                   !.resp = [status |-> 200, json |-> TRUE, ok |-> TRUE]]
    ELSE IF R.feeds[fi].st = "rejected"
    THEN Advance([R EXCEPT !.errors = Append(@,
                      [source |-> "fetch", error |-> R.feeds[fi].reason])],
                 feedNames, fi + 1, 1)
    ELSE IF ii > R.feeds[fi].n
    THEN Advance(R, feedNames, fi + 1, 1)
    ELSE [R EXCEPT !.pc = "item", !.fi = fi, !.ii = ii]

\* `continue` / end of the loop body: on to the next item
NextItem(R, feedNames) == Advance(R, feedNames, R.fi, R.ii + 1)

\* a call whose promise is not awaited: the loop body goes on while the
\* request is still in flight
ResumedEarly(R) == R

\* `await` of an extraction or store call: the loop body resumes when the
\* response has arrived
Resumed(R) == [R EXCEPT !.inflight = @ - 1]

\* lines 299-310: final guard, cleaning, content floor; then the upsert
Finalize(R, feedNames, cur, content) ==
    LET c == FinalContent(content, cur.title)
    IN  IF TooShort(c)
        THEN NextItem([R EXCEPT !.cur = [cur EXCEPT !.content = c,
                                                    !.disp = "skipShort"]], feedNames)
        ELSE [R EXCEPT !.pc = "upsert", !.inflight = @ + 1,
                       !.cur = [cur EXCEPT !.content = c]]

\* a plain insert: always a new row
InsertArticle(table, row, newId) == table \cup {[row EXCEPT !.id = newId]}

\* articles.upsert([...], { onConflict: "url" }): the row with that url is
\* replaced (its id kept), or a new row is added
UpsertArticle(table, row, newId) ==
    IF \E a \in table : a.url = row.url
    THEN LET old == CHOOSE a \in table : a.url = row.url
         IN  (table \ {old}) \cup {[row EXCEPT !.id = old.id]}
    ELSE table \cup {[row EXCEPT !.id = newId]}

\* cluster_members.upsert([...], { onConflict: "cluster_id,article_id" })
UpsertMember(table, row) == table \cup {row}

\* ------------------------------------------------------------------------
\* Ingest route: GET / POST -> runIngestion, one action per await
\* ------------------------------------------------------------------------
\* the handler's guard (lines 369-370, 383-384)
IngestStart(r, D) ==
    /\ run[r].pc = "start"
    /\ \E req \in D.requests :
          run' = [run EXCEPT ![r] =
                    IF isAuthorized(req)
                    THEN [@ EXCEPT !.pc = "ensureSelect", !.req = req]
                    ELSE [@ EXCEPT !.pc = "done", !.req = req,
                             !.resp = [status |-> 401, json |-> FALSE, ok |-> FALSE]]]
    /\ UNCHANGED <<storeVars, articles>>

\* ensureTodayCluster: select the cluster of today (lines 168-177)
EnsureSelect(r, D) ==
    /\ run[r].pc = "ensureSelect"
    /\ \/ run' = [run EXCEPT ![r] = Raised(@)]                      \* selErr
       \/ /\ \E c \in clusters : c.cluster_date = "today"
          /\ \E c \in {x \in clusters : x.cluster_date = "today"} :    \* limit(1)
                run' = [run EXCEPT ![r] =
                          FetchesStarted([@ EXCEPT !.clusterId = c.id], D.feeds)]
       \/ /\ ~\E c \in clusters : c.cluster_date = "today"
          /\ run' = [run EXCEPT ![r].pc = "ensureInsert"]
    /\ UNCHANGED <<storeVars, articles>>

\* ensureTodayCluster: insert the cluster of today (lines 179-186)
EnsureInsert(r, D) ==
    /\ run[r].pc = "ensureInsert"
    /\ \/ run' = [run EXCEPT ![r] = Raised(@)] /\ UNCHANGED storeVars   \* insErr
       \/ /\ clusters' = clusters \cup {[id |-> nextId, cluster_date |-> "today"]}
          /\ nextId' = nextId + 1
          /\ run' = [run EXCEPT ![r] =
                       FetchesStarted([@ EXCEPT !.clusterId = nextId], D.feeds)]
          /\ UNCHANGED <<cluster_runs, cluster_members, clusters_in_run,
                         top_daily_clusters, summaries>>
    /\ UNCHANGED articles

\* fetchFeed: one attempt ends (lines 203-216); a non-2xx status, a network
\* error and a parse failure all land in the catch, which starts the backoff
FetchAttempt(r, f, D) ==
    /\ run[r].pc = "fetching"
    /\ f \in 1..Len(run[r].feeds)
    /\ run[r].feeds[f].st = "attempt"
    /\ \E out \in D.fetchOutcomes :
          IF out = "ok"
          THEN \E n \in 0..D.maxItems :
                  run' = [run EXCEPT ![r].feeds[f] =
                             FeedRec("fulfilled", 0, "", 0, n, <<>>)]
          ELSE run' = [run EXCEPT ![r].feeds[f] =
                         FeedRec("backoff", @.i, out, BackoffBase * (@.i + 1), 0, <<>>)]
    /\ UNCHANGED <<storeVars, articles>>

\* fetchFeed: the backoff timer fires, i++ (lines 202, 215-219)
FetchBackoff(r, f, D) ==
    /\ run[r].pc = "fetching"
    /\ f \in 1..Len(run[r].feeds)
    /\ run[r].feeds[f].st = "backoff"
    /\ LET fd == run[r].feeds[f]
       IN  run' = [run EXCEPT ![r].feeds[f] =
                     IF LoopContinues(fd.i + 1, DefaultRetries)
                     THEN FeedRec("attempt", fd.i + 1, fd.lastErr, 0, 0, <<>>)
                     ELSE FeedRec("rejected", 0, "", 0, 0,
                                  <<D.feeds[f], fd.lastErr>>)]
    /\ UNCHANGED <<storeVars, articles>>

\* Promise.allSettled resolves: the result loop starts (lines 227-243)
AllSettled(r, D) ==
    /\ run[r].pc = "fetching"
    /\ Settled(run[r].feeds)
    /\ run' = [run EXCEPT ![r] = Advance(@, D.feeds, 1, 1)]
    /\ UNCHANGED <<storeVars, articles>>

\* a loop body that tries the extraction before it looks at the timestamp
BeforeAwaitExtractFirst(shapeOk, stale, needsExtraction) ==
    IF ~shapeOk THEN "skipShape"
    ELSE IF needsExtraction THEN "extract"
    ELSE IF stale THEN "skipStale"
    ELSE "finalize"

\* the order of the checks of the loop body up to its first await: the shape
\* and link check (245), the freshness filter (271-274), the source policy
\* (281-297)
BeforeAwait(shapeOk, stale, needsExtraction) ==
    IF ~shapeOk THEN "skipShape"
    ELSE IF stale THEN "skipStale"
    ELSE IF needsExtraction THEN "extract"
    ELSE "finalize"

\* one item, up to its first await (lines 244-297)
ItemBegin(r, D) ==
    /\ run[r].pc = "item"
    /\ \E it \in D.items :
          LET R == run[r]
              source == D.feeds[R.fi]
              link == unwrapGoogleNewsLink(it.link)
              title == IF Falsy(it.title) THEN it.title ELSE cleanContent(it.title)
              ts == IF it.isoDate.kind # "absent" THEN it.isoDate ELSE it.pubDate
              snippet == FeedSnippet(it)
              cur == [NoItem EXCEPT !.shape = it.shape, !.source = source,
                                    !.f = R.fi, !.url = link, !.hash = urlHash(link),
                                    !.title = title, !.ts = ts,
                                    !.published_at = PublishedAt(it),
                                    !.snippet = snippet, !.content = snippet]
              S == [R EXCEPT !.seen = @ + 1]
              step == BeforeAwait(it.shape = "ok", Stale(cur.published_at),
                                  NeedsExtraction(source, snippet))
          IN  run' = [run EXCEPT ![r] =
                 IF step = "skipShape"
                 THEN NextItem([S EXCEPT !.cur = [NoItem EXCEPT !.shape = it.shape,
                                    !.source = source, !.f = R.fi,
                                    !.disp = "skipShape"]], D.feeds)
                 ELSE IF step = "skipStale"
                 THEN NextItem([S EXCEPT !.cur = [cur EXCEPT !.disp = "skipStale"]],
                               D.feeds)
                 ELSE IF step = "extract"
                 THEN [S EXCEPT !.pc = "extract", !.inflight = @ + 1,
                                !.cur = [cur EXCEPT !.extracted = TRUE]]
                 ELSE Finalize(S, D.feeds, cur, snippet)]
    /\ UNCHANGED <<storeVars, articles>>

\* extractFullText returns (lines 284-310)
ItemExtracted(r, D) ==
    /\ run[r].pc = "extract"
    /\ \E page \in D.pages :
          LET R == Resumed(run[r])
              full == extractFullText(page)
              cur == [R.cur EXCEPT !.full = full, !.page = page]
          IN  run' = [run EXCEPT ![r] =
                        Finalize(R, D.feeds, cur, Upgraded(R.cur.content, full))]
    /\ UNCHANGED <<storeVars, articles>>

\* an item failure that is not pushed to the error list
ItemFailedSilent(R, feedNames, what) ==
    NextItem([R EXCEPT !.cur = [@ EXCEPT !.disp = what]], feedNames)

\* an error of an item: errors.push({ source, error }) and on to the next item
ItemFailed(R, feedNames, what) ==
    NextItem([R EXCEPT !.errors = Append(@, [source |-> R.cur.source,
                                             error |-> <<what>>]),
                       !.cur = [@ EXCEPT !.disp = what,
                                         !.errIdx = Len(R.errors) + 1]], feedNames)

\* the article upsert returns (lines 312-339)
ArticleUpsert(r, D) ==
    /\ run[r].pc = "upsert"
    /\ LET R == Resumed(run[r])
           row == [id |-> NoId, url |-> R.cur.url, hash |-> R.cur.hash,
                   content |-> R.cur.content, source |-> R.cur.source]
       IN  \E out \in D.upsertOutcomes :
              IF out = "ok"
              THEN LET table == UpsertArticle(articles, row, nextId)
                       stored == CHOOSE a \in table : a.url = row.url
                   IN  /\ articles' = table
                       /\ nextId' = IF Cardinality(table) > Cardinality(articles)
                                    THEN nextId + 1 ELSE nextId
                       /\ run' = [run EXCEPT ![r] =
                                    [R EXCEPT !.pc = "link", !.inflight = @ + 1,
                                              !.articlesUpserted = @ + 1,
                                              !.cur = [@ EXCEPT !.articleId = stored.id]]]
              ELSE /\ run' = [run EXCEPT ![r] = ItemFailed(R, D.feeds, out)]
                   /\ UNCHANGED <<articles, nextId>>
    /\ UNCHANGED <<cluster_runs, clusters, cluster_members, clusters_in_run,
                   top_daily_clusters, summaries>>

\* the membership upsert returns (lines 341-361)
LinkUpsert(r, D) ==
    /\ run[r].pc = "link"
    /\ LET R == Resumed(run[r])
       IN  \E out \in D.linkOutcomes :
              IF out = "ok"
              THEN /\ cluster_members' = UpsertMember(cluster_members,
                          [cluster_id |-> R.clusterId, article_id |-> R.cur.articleId])
                   /\ run' = [run EXCEPT ![r] =
                                NextItem([R EXCEPT !.linksUpserted = @ + 1,
                                                   !.cur = [@ EXCEPT !.disp = "linked"]],
                                         D.feeds)]
              ELSE /\ run' = [run EXCEPT ![r] = ItemFailed(R, D.feeds, out)]
                   /\ UNCHANGED cluster_members
    /\ UNCHANGED <<cluster_runs, clusters, clusters_in_run, top_daily_clusters,
                   summaries, nextId, articles>>

Ingest(r, D) ==
    \/ IngestStart(r, D)
    \/ EnsureSelect(r, D)
    \/ EnsureInsert(r, D)
    \/ \E f \in 1..Len(D.feeds) : FetchAttempt(r, f, D)
    \/ \E f \in 1..Len(D.feeds) : FetchBackoff(r, f, D)
    \/ AllSettled(r, D)
    \/ ItemBegin(r, D)
    \/ ItemExtracted(r, D)
    \/ ArticleUpsert(r, D)
    \/ LinkUpsert(r, D)

\* ------------------------------------------------------------------------
\* Inputs of the Ingest operation
\* ------------------------------------------------------------------------
DirectLink(u) == [href |-> u, gnews |-> FALSE, real |-> ""]
GoogleLink(g, real) == [href |-> g, gnews |-> TRUE, real |-> real]
Iso(age) == [kind |-> "iso", age |-> age]
\* a date string parseISO does not understand (e.g. an RFC 822 pubDate)
OtherDate == [kind |-> "other", age |-> 0]

FeedItem(shape, link, title, isoDate, pubDate, contentSnippet, content) ==
    [shape |-> shape, link |-> link, title |-> title, isoDate |-> isoDate,
     pubDate |-> pubDate, contentSnippet |-> contentSnippet, content |-> content]

LongSnippet == Text(0, 80, FALSE)
LongTitle == Text(0, 90, FALSE)

\* items that differ in their timestamps
FreshnessItems ==
    {FeedItem("ok", DirectLink("u1"), NoText, d[1], d[2], LongSnippet, NoText) :
        d \in {<<Iso(a), NoDate>> : a \in {0, TWELVE_HOURS - 1, TWELVE_HOURS,
                                           TWELVE_HOURS + 1, 20 * 60 * 60 * 1000}}
              \cup {<<NoDate, NoDate>>, <<NoDate, OtherDate>>, <<OtherDate, NoDate>>,
                    <<NoDate, Iso(TWELVE_HOURS + 1)>>}}

\* fresh items that differ in their snippet, content and title
ContentItems ==
    {FeedItem("ok", DirectLink("u1"), t, Iso(0), NoDate, sn, NoText) :
        t \in {NoText, LongTitle},
        sn \in {NoText, Text(3, 0, FALSE), Text(0, 39, FALSE), Text(0, 40, FALSE),
                Text(0, 69, FALSE), Text(0, 70, FALSE), Text(0, 65, TRUE)}}
    \cup {FeedItem("ok", DirectLink("u1"), NoText, Iso(0), NoDate, NoText,
                   Text(0, 75, FALSE))}

\* items that fail the shape check, and aggregator links
ShapeItems ==
    {FeedItem(sh, DirectLink("u1"), NoText, Iso(0), NoDate, LongSnippet, NoText) :
        sh \in {"invalid", "nolink"}}
    \cup {FeedItem("ok", l, NoText, Iso(0), NoDate, LongSnippet, NoText) :
            l \in {GoogleLink("g1", "u1"), GoogleLink("g2", "")}}

\* what the fetch and the parse of an article page can give
Page(fetch, parser, readable, stripped) ==
    [fetch |-> fetch, parser |-> parser, readable |-> readable, stripped |-> stripped]

Pages ==
    {Page("throws", "ok", NoText, NoText), Page("non2xx", "ok", NoText, NoText),
     Page("ok", "throws", NoText, NoText),
     Page("ok", "ok", Text(0, 250, FALSE), Text(0, 400, FALSE)),
     Page("ok", "ok", Text(0, 199, FALSE), Text(0, 200, TRUE)),
     Page("ok", "ok", Text(0, 199, FALSE), Text(0, 199, FALSE)),
     Page("ok", "ok", Text(0, 0, FALSE), Text(0, 0, FALSE))}

IngestRequests ==
    {[secretSet |-> FALSE, header |-> "absent"],
     [secretSet |-> TRUE, header |-> "match"],
     [secretSet |-> TRUE, header |-> "wrong"]}

\* item-focused runs: two feeds, one of each source policy
ItemInputs ==
    [runs |-> {1},
     feeds |-> <<"Reuters", "MarketWatch Top Stories">>,
     requests |-> IngestRequests,
     fetchOutcomes |-> {"ok", "http"},
     maxItems |-> MaxItemsFew,
     items |-> FreshnessItems \cup ContentItems \cup ShapeItems,
     pages |-> Pages,
     upsertOutcomes |-> {"ok", "upsertError"},
     linkOutcomes |-> {"ok"}]

\* a fresh item with a long snippet, and the same item twenty hours old
PlainItems ==
    {FeedItem("ok", DirectLink("u1"), NoText, Iso(a), NoDate, LongSnippet, NoText) :
        a \in {0, 20 * 60 * 60 * 1000}}

PlainPages ==
    {Page("non2xx", "ok", NoText, NoText),
     Page("ok", "ok", Text(0, 250, FALSE), Text(0, 400, FALSE))}

\* fetch-focused runs: three feeds, every outcome of a fetch attempt and of
\* the store calls
FetchInputs ==
    [runs |-> {1},
     feeds |-> <<"Reuters", "Bloomberg", "MarketWatch Top Stories">>,
     requests |-> IngestRequests,
     fetchOutcomes |-> {"ok", "http", "network", "parse"},
     maxItems |-> MaxItemsFew,
     items |-> PlainItems,
     pages |-> PlainPages,
     upsertOutcomes |-> {"ok", "upsertError"},
     linkOutcomes |-> {"ok", "linkError"}]

\* failure-focused runs: two feeds of several items, every outcome of the
\* extraction and of the store calls
FailureInputs ==
    [runs |-> {1},
     feeds |-> <<"Reuters", "MarketWatch Top Stories">>,
     requests |-> {[secretSet |-> FALSE, header |-> "absent"]},
     fetchOutcomes |-> {"ok", "http"},
     maxItems |-> MaxItems,
     items |-> PlainItems \cup
               {FeedItem("invalid", DirectLink("u1"), NoText, Iso(0), NoDate,
                         LongSnippet, NoText)},
     pages |-> PlainPages \cup {Page("throws", "ok", NoText, NoText)},
     upsertOutcomes |-> {"ok", "upsertError", "threw"},
     linkOutcomes |-> {"ok", "linkError", "threw"}]

\* overlapping runs: two invocations over one feed, two urls
OverlapItems ==
    {FeedItem("ok", l, NoText, NoDate, NoDate, sn, NoText) :
        l \in {DirectLink("u1"), DirectLink("u2"), GoogleLink("g1", "u1")},
        sn \in {LongSnippet, Text(0, 75, FALSE)}}

OverlapInputs ==
    [runs |-> {1, 2},
     feeds |-> <<"MarketWatch Top Stories">>,
     requests |-> {[secretSet |-> FALSE, header |-> "absent"]},
     fetchOutcomes |-> {"ok", "http"},
     maxItems |-> MaxItemsFew,
     items |-> OverlapItems,
     pages |-> PlainPages,
     upsertOutcomes |-> {"ok", "upsertError"},
     linkOutcomes |-> {"ok"}]

IngestInit(D) ==
    /\ StoreInit
    /\ articles = {}
    /\ run = [r \in D.runs |-> RunInit]
    /\ inv = <<>>

IngestNext(D) ==
    /\ \E r \in D.runs : Ingest(r, D)
    /\ UNCHANGED clusterVars

SpecItems == IngestInit(ItemInputs) /\ [][IngestNext(ItemInputs)]_vars

SpecIngest == IngestInit(FetchInputs) /\ [][IngestNext(FetchInputs)]_vars

SpecFailures == IngestInit(FailureInputs) /\ [][IngestNext(FailureInputs)]_vars

SpecOverlap == IngestInit(OverlapInputs) /\ [][IngestNext(OverlapInputs)]_vars

\* ------------------------------------------------------------------------
\* stripHtmlToText (lines 42-50) on html given as a sequence of tokens: an
\* opening or closing tag, a word of text (with the element it stands in, for
\* the claims), a whitespace character
\* ------------------------------------------------------------------------
Open(t) == [k |-> "open", tag |-> t, in |-> ""]
Close(t) == [k |-> "close", tag |-> t, in |-> ""]
Word(t) == [k |-> "word", tag |-> "", in |-> t]
Space == [k |-> "space", tag |-> "", in |-> ""]

\* .replace(/<tag[\s\S]*?<\/tag>/gi, " "): from an opening tag to the first
\* closing tag after it
RECURSIVE ReplaceBlocks(_, _)
ReplaceBlocks(s, t) ==
    IF Len(s) = 0 THEN <<>>
    ELSE IF s[1] = Open(t) /\ \E j \in 2..Len(s) : s[j] = Close(t)
    THEN LET j == CHOOSE x \in 2..Len(s) :
                     s[x] = Close(t) /\ \A y \in 2..(x - 1) : s[y] # Close(t)
         IN  <<Space>> \o ReplaceBlocks(SubSeq(s, j + 1, Len(s)), t)
    ELSE <<s[1]>> \o ReplaceBlocks(Tail(s), t)

\* .replace(/<\/?(?:a|b|...)[^>]*>/gi, " "): each tag of the set by a space
ReplaceTags(s, tags) ==
    [n \in 1..Len(s) |->
        IF s[n].k \in {"open", "close"} /\ s[n].tag \in tags THEN Space ELSE s[n]]

\* .replace(/\s+/g, " ")
RECURSIVE CollapseSpaces(_)
CollapseSpaces(s) ==
    IF Len(s) <= 1 THEN s
    ELSE IF s[1] = Space /\ s[2] = Space THEN CollapseSpaces(Tail(s))
    ELSE <<s[1]>> \o CollapseSpaces(Tail(s))

\* .trim()
RECURSIVE Trim(_)
Trim(s) ==
    IF Len(s) = 0 THEN s
    ELSE IF s[1] = Space THEN Trim(Tail(s))
    ELSE IF s[Len(s)] = Space THEN Trim(SubSeq(s, 1, Len(s) - 1))
    ELSE s

\* the elements whose tags the third replace names, and every element
ChromeTags == {"nav", "header", "footer", "aside", "noscript"}
HtmlTags == {"script", "style", "p"} \cup ChromeTags

stripHtmlToText(html) ==
    Trim(CollapseSpaces(
        ReplaceTags(ReplaceTags(ReplaceBlocks(ReplaceBlocks(html, "script"), "style"),
                                ChromeTags),
                    HtmlTags)))

\* documents: up to MaxNodes elements with one word each, bare words, spaces
HtmlNodes ==
    {<<Open(t), Word(t), Close(t)>> : t \in HtmlTags} \cup {<<Word("")>>, <<Space>>}

RECURSIVE Flatten(_)
Flatten(ss) == IF Len(ss) = 0 THEN <<>> ELSE ss[1] \o Flatten(Tail(ss))

Htmls == {Flatten(ss) : ss \in SeqsUpTo(HtmlNodes, MaxNodes)}

\* one call of stripHtmlToText: the html it was given, then the text it gave
StripInit ==
    /\ StoreInit
    /\ articles = {}
    /\ inv = <<>>
    /\ run \in [{1} -> {[pc |-> "html", html |-> h, text |-> <<>>] : h \in Htmls}]

StripCall(r) ==
    /\ run[r].pc = "html"
    /\ run' = [run EXCEPT ![r].pc = "text",
                          ![r].text = stripHtmlToText(run[r].html)]
    /\ UNCHANGED <<storeVars, articles, inv>>

StripNext == \E r \in DOMAIN run : StripCall(r)

SpecStrip == StripInit /\ [][StripNext]_vars

\* ------------------------------------------------------------------------
\* Claims about the Ingest operation
\* ------------------------------------------------------------------------
\* the items of the fulfilled results among the first k
RECURSIVE ItemsOfFirst(_, _)
ItemsOfFirst(feeds, k) ==
    IF k = 0 THEN 0
    ELSE ItemsOfFirst(feeds, k - 1)
         + (IF feeds[k].st = "fulfilled" THEN feeds[k].n ELSE 0)

ItemsFetched(R) == ItemsOfFirst(R.feeds, Len(R.feeds))

RejectedFeeds(R) == {f \in 1..Len(R.feeds) : R.feeds[f].st = "rejected"}

\* the entries of the error list that come from the fetch of feed `name`
FetchErrorsOf(R, name) ==
    {k \in 1..Len(R.errors) :
        R.errors[k].source = "fetch" /\ R.errors[k].error[1] = name}

\* the article upsert of the item was issued
UpsertIssued(c) == c.disp \in {"linked", "linkError", "upsertError", "threw"}

\* the item is past the shape check and the freshness filter, and finished
FreshAndFinished(c) == c.shape = "ok" /\ c.disp \notin {"", "skipStale"}

\* C2: a returned report holds exactly one "fetch" error entry for each feed
\* whose fetch failed, naming that feed, and none for the others; every item
\* of every fulfilled feed was processed, and an item that passed the filters
\* had its upsert issued (a linked item's article is in the store).
C2_FeedIsolation ==
    \A r \in DOMAIN run :
        LET R == run[r]
            c == R.cur
        IN  /\ (R.pc = "done" /\ R.resp.ok) =>
                 /\ \A f \in 1..Len(R.feeds) :
                       Cardinality(FetchErrorsOf(R, FetchInputs.feeds[f])) =
                          (IF R.feeds[f].st = "rejected" THEN 1 ELSE 0)
                 /\ Cardinality({k \in 1..Len(R.errors) : R.errors[k].source = "fetch"})
                       = Cardinality(RejectedFeeds(R))
                 /\ R.seen = ItemsFetched(R)
            /\ (FreshAndFinished(c) /\ ~TooShort(c.content)) => UpsertIssued(c)
            /\ c.disp \in {"linked", "linkError"} => \E a \in articles : a.url = c.url

\* C2 witness: three feeds, the second failed every attempt, the first and
\* the third each delivered an item that was upserted.
C2_Witness ==
    \E r \in DOMAIN run :
        /\ run[r].pc = "done" /\ run[r].resp.ok
        /\ Len(run[r].feeds) = 3
        /\ run[r].feeds[2].st = "rejected"
        /\ run[r].feeds[1].st = "fulfilled" /\ run[r].feeds[1].n >= 1
        /\ run[r].feeds[3].st = "fulfilled" /\ run[r].feeds[3].n >= 1
        /\ run[r].articlesUpserted >= 2
        /\ Len(run[r].errors) = 1

ItemFailures == {"upsertError", "linkError", "threw"}
ExtractionFailed(c) == c.extracted /\ Falsy(c.full) /\ c.disp # ""

\* C3: an item whose processing failed (shape check, extraction, article
\* upsert, membership upsert, exception) has an entry in the error list with
\* the item's feed name as source, and a returned report has seen every item
\* of every fetched feed.
C3_ItemFailuresRecorded ==
    \A r \in DOMAIN run :
        LET R == run[r]
            c == R.cur
        IN  /\ (c.disp \in ItemFailures \cup {"skipShape"} \/ ExtractionFailed(c)) =>
                 /\ c.errIdx \in 1..Len(R.errors)
                 /\ R.errors[c.errIdx].source = FailureInputs.feeds[c.f]
            /\ R.pc = "done" /\ R.fi > 0 => R.resp.ok /\ R.seen = ItemsFetched(R)


\* C5: with the 12-hour window an item exactly 12 hours old is not dropped by
\* the freshness filter, an item one millisecond older is, and an item whose
\* timestamp is absent or unparseable never is.
C5_FreshnessBoundary ==
    \A r \in DOMAIN run :
        LET c == run[r].cur
        IN  c.shape = "ok" =>
              /\ (c.ts.kind = "iso" /\ c.ts.age = 12 * 60 * 60 * 1000)
                    => c.disp # "skipStale"
              /\ (c.ts.kind = "iso" /\ c.ts.age = 12 * 60 * 60 * 1000 + 1)
                    => c.disp = "skipStale"
              /\ c.ts.kind \in {"absent", "other"} => c.disp # "skipStale"

\* C5 witness: an item exactly 12 hours old was upserted and linked.
C5_Witness ==
    \E r \in DOMAIN run :
        /\ run[r].cur.ts = Iso(12 * 60 * 60 * 1000)
        /\ run[r].cur.disp = "linked"

\* C6: the article store never holds two rows for one url, however often and
\* from however many overlapping runs the url is ingested.
C6_OneRowPerUrl ==
    \A a, b \in articles : a.url = b.url => a = b

\* C6 witness: two runs are both past the article upsert of the same url, and
\* the store holds one row for it.
C6_Witness ==
    /\ DOMAIN run = {1, 2}
    /\ run[1].pc = "link" /\ run[2].pc = "link"
    /\ run[1].cur.url = run[2].cur.url
    /\ Cardinality({a \in articles : a.url = run[1].cur.url}) = 1

\* the extraction gave nothing the policy takes (lines 285, 293)
NoUpgrade(c) == c.extracted /\ (Falsy(c.full) \/ Length(c.full) < MIN_FULLTEXT)

\* C7: a fresh item of an always-upgrade source with a non-blank snippet,
\* whose extraction failed or gave fewer than 200 characters, is not dropped:
\* its upsert is issued with the (cleaned) snippet as content, whatever the
\* snippet's length.
C7_AlwaysUpgradeKeepsSnippet ==
    \A r \in DOMAIN run :
        LET c == run[r].cur
        IN  (/\ c.source \in FULLTEXT_SOURCES
             /\ FreshAndFinished(c)
             /\ ~Falsy(c.snippet) /\ TrimLength(c.snippet) > 0
             /\ NoUpgrade(c))
            => UpsertIssued(c) /\ c.content = cleanContent(c.snippet)

\* the feed snippet meets the snippet minimum of 40 characters (line 291)
SnippetMeetsMinimum(c) == ~Falsy(c.snippet) /\ TrimLength(c.snippet) >= 40

\* C8: a fresh item of a snippet-preferred source is dropped only if its
\* snippet is below 40 characters and the extraction fallback gave fewer than
\* 200; an item whose snippet has 40 characters or more is never dropped.
C8_SnippetPreferredDrop ==
    \A r \in DOMAIN run :
        LET c == run[r].cur
        IN  (c.source \notin FULLTEXT_SOURCES /\ FreshAndFinished(c)) =>
              /\ c.disp = "skipShort" => ~SnippetMeetsMinimum(c) /\ NoUpgrade(c)
              /\ SnippetMeetsMinimum(c) => c.disp # "skipShort"

\* one step of fetchFeed for the feed `name`, from a to b
FeedStep(name, a, b) ==
    \/ b = a
    \/ /\ a.st = "attempt" /\ a.i + 1 <= DefaultRetries + 1
       /\ b.st = "fulfilled"
    \/ /\ a.st = "attempt" /\ a.i + 1 <= DefaultRetries + 1
       /\ b.st = "backoff" /\ b.i = a.i
       /\ b.lastErr \in {"http", "network", "parse"}
    \/ /\ a.st = "backoff" /\ a.i < DefaultRetries
       /\ b.st = "attempt" /\ b.i = a.i + 1
    \/ /\ a.st = "backoff" /\ a.i = DefaultRetries
       /\ b.st = "rejected" /\ b.reason = <<name, a.lastErr>>

\* C9: fetchFeed makes at most retries + 1 = 3 attempts; a successful attempt
\* ends it (no further attempt follows); a non-2xx status, a network error and
\* a parse failure each only fail the attempt; it raises, naming the feed,
\* only from the failure of the last attempt.
C9_FetchFeedAttempts ==
    [][\A r \in DOMAIN run : \A f \in 1..Len(run[r].feeds) :
          FeedStep(FetchInputs.feeds[f], run[r].feeds[f], run'[r].feeds[f])]_vars

\* C9 witness: one feed is at its third attempt after a non-2xx status, one
\* has delivered its items, and one has raised after a parse failure.
C9_Witness ==
    \E r \in DOMAIN run : \E f, g, h \in 1..Len(run[r].feeds) :
        /\ run[r].feeds[f].st = "attempt" /\ run[r].feeds[f].i = DefaultRetries
        /\ run[r].feeds[f].lastErr = "http"
        /\ run[r].feeds[g].st = "fulfilled" /\ run[r].feeds[g].n >= 1
        /\ run[r].feeds[h].st = "rejected"
        /\ run[r].feeds[h].reason = <<FetchInputs.feeds[h], "parse">>

\* the run is in its item loop, or has been
ItemsStarted(R) ==
    \/ R.pc \in {"item", "extract", "upsert", "link"}
    \/ R.seen > 0 \/ R.articlesUpserted > 0 \/ R.linksUpserted > 0

\* C15: the fetches of all feeds start in one step, each at its first attempt;
\* while the run is fetching, the next step of every unsettled fetch is
\* enabled whatever the state of the other fetches; and no item is processed
\* before every fetch is fulfilled or rejected.
C15_FanOutFanIn ==
    /\ [](\A r \in DOMAIN run :
             LET R == run[r]
             IN  /\ ItemsStarted(R) =>
                       \A f \in 1..Len(R.feeds) :
                          R.feeds[f].st \in {"fulfilled", "rejected"}
                 /\ R.pc = "fetching" =>
                       /\ Len(R.feeds) = Len(FetchInputs.feeds)
                       /\ \A f \in 1..Len(R.feeds) :
                             /\ R.feeds[f].st = "attempt" =>
                                   ENABLED FetchAttempt(r, f, FetchInputs)
                             /\ R.feeds[f].st = "backoff" =>
                                   ENABLED FetchBackoff(r, f, FetchInputs))
    /\ [][\A r \in DOMAIN run :
             (run[r].feeds = <<>> /\ run'[r].feeds # <<>>) =>
                \A f \in 1..Len(FetchInputs.feeds) :
                   run'[r].feeds[f] = FeedRec("attempt", 0, "", 0, 0, <<>>)]_vars

\* C15 witness: the first feed is upserting its item after the second feed
\* was rejected and the third fulfilled.
C15_Witness ==
    \E r \in DOMAIN run :
        /\ run[r].pc = "upsert" /\ run[r].fi = 1
        /\ Len(run[r].feeds) = 3
        /\ run[r].feeds[2].st = "rejected" /\ run[r].feeds[3].st = "fulfilled"

\* the loops moved on by one item, or to the first item of a later feed
NextPosition(R, S) ==
    \/ S.fi = R.fi /\ S.ii = R.ii + 1
    \/ S.fi > R.fi /\ S.ii = 1

\* C16: at no moment does a run have two extraction or store requests in
\* flight (it has one exactly while it waits in the body of one item), the
\* items are taken one by one in feed order, and the loops move on only when
\* no request of the item is in flight.
C16_SequentialItems ==
    /\ [](\A r \in DOMAIN run :
             /\ run[r].inflight \in {0, 1}
             /\ run[r].inflight = 1 <=> run[r].pc \in {"extract", "upsert", "link"})
    /\ [][\A r \in DOMAIN run :
             \/ run'[r].fi = run[r].fi /\ run'[r].ii = run[r].ii
                /\ run'[r].seen \in {run[r].seen, run[r].seen + 1}
             \/ /\ NextPosition(run[r], run'[r])
                /\ run'[r].inflight = 0
                /\ run'[r].seen \in {run[r].seen, run[r].seen + 1}]_vars

\* C16 witness: the second item of the first feed waits for its article
\* upsert after the first item was upserted and linked.
C16_Witness ==
    \E r \in DOMAIN run :
        /\ run[r].pc = "upsert" /\ run[r].fi = 1 /\ run[r].ii = 2
        /\ run[r].linksUpserted = 1 /\ run[r].inflight = 1

\* the error entries pushed by the item loop (not by a rejected fetch)
ItemErrors(R) == SelectSeq(R.errors, LAMBDA e : e.source # "fetch")

C27_ExtractNeverRaises ==
    /\ [](\A r \in DOMAIN run :
             LET c == run[r].cur
                 thin == Falsy(c.page.readable) \/ Length(c.page.readable) < 200
             IN  (c.extracted /\ run[r].pc # "extract") =>
                   /\ c.full = NoText \/ (~c.full.null /\ Length(c.full) >= 200)
                   /\ (c.page.fetch # "ok" \/ c.page.parser = "throws") =>
                         c.full = NoText
                   /\ (c.page.fetch = "ok" /\ c.page.parser = "ok") =>
                         /\ ~thin => c.full = c.page.readable
                         /\ (thin /\ Length(c.page.stripped) >= 200) =>
                               c.full = c.page.stripped
                         /\ (thin /\ Length(c.page.stripped) < 200) =>
                               c.full = NoText)
    /\ [][\A r \in DOMAIN run :
             (run[r].pc = "extract" /\ run'[r] # run[r]) =>
                /\ ItemErrors(run'[r]) = ItemErrors(run[r])
                /\ run'[r].resp.status # 500]_vars

\* C27 witness: the readability text had 199 characters and the extraction
\* returned the tag-stripped text of 208.
C27_Witness ==
    \E r \in DOMAIN run :
        /\ run[r].cur.page.fetch = "ok" /\ run[r].cur.page.parser = "ok"
        /\ Length(run[r].cur.page.readable) = 199
        /\ run[r].cur.full = run[r].cur.page.stripped
        /\ Length(run[r].cur.full) = 208

\* C28: a run waits for an extraction, or for a store write, only for an item
\* with a valid link that the freshness filter let through; an item dropped
\* for its shape, its link or its age was never extracted and has no article,
\* and the step that drops it starts no request and writes nothing.
C28_FilterBeforeExtract ==
    /\ [](\A r \in DOMAIN run :
             LET c == run[r].cur
             IN  /\ (run[r].pc \in {"extract", "upsert", "link"} \/ c.extracted) =>
                       c.shape = "ok" /\ ~Stale(c.published_at)
                 /\ c.disp \in {"skipShape", "skipStale"} =>
                       /\ ~c.extracted /\ c.full = NoText /\ c.articleId = NoId
                       /\ c.disp = "skipStale" => Stale(c.published_at)
                       /\ c.disp = "skipShape" => c.shape # "ok")
    /\ [][\A r \in DOMAIN run :
             (run'[r] # run[r] /\ run'[r].cur.disp \in {"skipShape", "skipStale"}) =>
                /\ run[r].pc = "item"
                /\ run'[r].inflight = 0
                /\ UNCHANGED <<storeVars, articles>>]_vars

\* C28 witness: an item of an always-extract source, one millisecond older
\* than twelve hours, was dropped without an extraction.
C28_Witness ==
    \E r \in DOMAIN run :
        /\ run[r].cur.source = "Reuters"
        /\ run[r].cur.disp = "skipStale"
        /\ run[r].cur.published_at = Iso(12 * 60 * 60 * 1000 + 1)
        /\ ~run[r].cur.extracted

\* C29: a fetch waits only between two attempts: while it waits after its
\* k-th failed attempt the wait is k x 600 ms and another attempt is left;
\* a fetch that attempts, or has settled, does not wait.
C29_LinearBackoff ==
    \A r \in DOMAIN run : \A f \in 1..Len(run[r].feeds) :
        LET fd == run[r].feeds[f]
        IN  /\ fd.st = "backoff" =>
                  /\ fd.wait = (fd.i + 1) * 600
                  /\ fd.i + 1 <= 2
            /\ fd.st # "backoff" => fd.wait = 0

\* C30: the text stripHtmlToText gives holds no tag, no word that stood inside
\* a script, style, nav, header, footer or aside element, no two whitespace
\* characters in a row and none at its start or end.
C30_StripRemovesBlocks ==
    \A r \in DOMAIN run :
        run[r].pc = "text" =>
            LET t == run[r].text
            IN  /\ \A n \in 1..Len(t) :
                      /\ t[n].k \notin {"open", "close"}
                      /\ t[n].in \notin {"script", "style", "nav", "header",
                                         "footer", "aside"}
                /\ \A n \in 1..(Len(t) - 1) : ~(t[n] = Space /\ t[n + 1] = Space)
                /\ Len(t) > 0 => (t[1] # Space /\ t[Len(t)] # Space)

\* C31: with ingestion runs alone writing to the store, however they overlap,
\* the store holds at most one cluster row of today, and every membership
\* link points to that row.
C31_SingleStickyCluster ==
    LET today == {c \in clusters : c.cluster_date = "today"}
    IN  /\ Cardinality(today) <= 1
        /\ \A m \in cluster_members : \A c \in today : m.cluster_id = c.id
        /\ \A m \in cluster_members : \E c \in today : m.cluster_id = c.id

\* 1 when the condition holds, else 0
Count(b) == IF b THEN 1 ELSE 0

\* C32: in a returned report linksUpserted <= articlesUpserted <= the number
\* of items of the fulfilled feeds, and the error list has one entry for each
\* rejected feed besides the entries of the item loop; every step of a run
\* raises articlesUpserted by one exactly when an article upsert succeeded,
\* linksUpserted by one exactly when a membership upsert succeeded, and adds
\* one entry of the item loop exactly when an article upsert or a membership
\* upsert failed or threw.
C32_ReportCounters ==
    /\ [](\A r \in DOMAIN run :
             LET R == run[r]
             IN  (R.pc = "done" /\ R.resp.ok) =>
                   /\ R.linksUpserted <= R.articlesUpserted
                   /\ R.articlesUpserted <= ItemsFetched(R)
                   /\ Len(R.errors) =
                         Cardinality(RejectedFeeds(R)) + Len(ItemErrors(R)))
    /\ [][\A r \in DOMAIN run :
             LET R == run[r]
                 S == run'[r]
                 upsert == S # R /\ R.pc = "upsert"
                 link == S # R /\ R.pc = "link"
                 failed == S.cur.disp \in ItemFailures
             IN  /\ S.articlesUpserted =
                       R.articlesUpserted + Count(upsert /\ ~failed)
                 /\ S.linksUpserted = R.linksUpserted + Count(link /\ ~failed)
                 /\ Len(ItemErrors(S)) =
                       Len(ItemErrors(R)) + Count((upsert \/ link) /\ failed)]_vars

\* C32 witness: a report after one rejected feed and a feed of two items, both
\* upserted, one of them not linked.
C32_Witness ==
    \E r \in DOMAIN run :
        LET R == run[r]
        IN  /\ R.pc = "done" /\ R.resp.ok
            /\ Cardinality(RejectedFeeds(R)) = 1 /\ ItemsFetched(R) = 2
            /\ R.articlesUpserted = 2 /\ R.linksUpserted = 1
            /\ Len(R.errors) = 2

\* ========================================================================
\* Both operations over the shared store
\* ========================================================================
\* one Cluster and one Ingest invocation, every combination of configured
\* secret and header, a short upstream result and one feed
BothClusterInputs ==
    [invs |-> {1},
     requests |-> {q \in Requests : q.topN = Undef},
     texts |-> ShortTexts]

BothIngestInputs ==
    [runs |-> {1},
     feeds |-> <<"Reuters">>,
     requests |-> [secretSet : BOOLEAN, header : {"absent", "wrong", "match"}],
     fetchOutcomes |-> {"ok", "http"},
     maxItems |-> MaxItemsFew,
     items |-> PlainItems,
     pages |-> PlainPages,
     upsertOutcomes |-> {"ok", "upsertError"},
     linkOutcomes |-> {"ok", "linkError"}]

BothInit ==
    /\ StoreInit
    /\ articles = {}
    /\ inv = [i \in BothClusterInputs.invs |-> InvInit]
    /\ run = [r \in BothIngestInputs.runs |-> RunInit]

BothNext ==
    \/ /\ \E i \in BothClusterInputs.invs : POST(i, BothClusterInputs)
       /\ UNCHANGED ingestVars
    \/ /\ \E r \in BothIngestInputs.runs : Ingest(r, BothIngestInputs)
       /\ UNCHANGED clusterVars

SpecBoth == BothInit /\ [][BothNext]_vars

\* the request comes with a configured secret and no header or another value
Rejectable(secretSet, header) == secretSet /\ header \in {"absent", "wrong"}

\* the invocation has done nothing but answer
ClusterUntouched(v) ==
    /\ v.pc = "done" /\ v.queried = "" /\ v.llmCalls = 0 /\ v.text.kind = ""
    /\ v.runId = NoId /\ v.ids = <<>>

IngestUntouched(R) ==
    /\ R.pc = "done" /\ R.clusterId = NoId /\ R.feeds = <<>> /\ R.seen = 0
    /\ R.articlesUpserted = 0 /\ R.linksUpserted = 0

\* C11: with a configured secret, a request whose header is absent or wrong
\* is answered 401 and the invocation has fetched, read, written and called
\* nothing, and the step that answers leaves the store as it was; without a
\* configured secret (or with the matching header) no request is answered 401.
C11_Authorization ==
    /\ [](/\ \A i \in DOMAIN inv :
                inv[i].pc # "start" =>
                   IF Rejectable(inv[i].req.cronRequired, inv[i].req.header)
                   THEN inv[i].resp.status = 401 /\ ClusterUntouched(inv[i])
                   ELSE inv[i].resp.status # 401
          /\ \A r \in DOMAIN run :
                run[r].pc # "start" =>
                   IF Rejectable(run[r].req.secretSet, run[r].req.header)
                   THEN run[r].resp.status = 401 /\ IngestUntouched(run[r])
                   ELSE run[r].resp.status # 401)
    /\ [][(\/ \E i \in DOMAIN inv :
                inv[i].resp.status # 401 /\ inv'[i].resp.status = 401
           \/ \E r \in DOMAIN run :
                run[r].resp.status # 401 /\ run'[r].resp.status = 401)
          => UNCHANGED <<storeVars, articles>>]_vars

\* C11 witness: the Cluster request without a header was answered 401 while
\* the Ingest request, sent with no secret configured, has upserted an article.
C11_Witness ==
    \E i \in DOMAIN inv : \E r \in DOMAIN run :
        /\ inv[i].req.cronRequired /\ inv[i].req.header = "absent"
        /\ inv[i].resp.status = 401
        /\ ~run[r].req.secretSet /\ run[r].req.header = "wrong"
        /\ run[r].articlesUpserted >= 1

\* C12: every response of Ingest and of Cluster carries an ok flag (a JSON
\* body with ok) and, with it, a result (ok = true) or an error message.
C12_ExplicitOutcome ==
    /\ \A i \in DOMAIN inv :
          inv[i].pc = "done" =>
             /\ inv[i].resp.status # 0
             /\ inv[i].resp.ok \/ inv[i].resp.error # ""
    /\ \A r \in DOMAIN run :
          run[r].pc = "done" => run[r].resp.status # 0 /\ run[r].resp.json

\* ========================================================================
\* Concurrent Cluster invocations over the shared store
\* ========================================================================
\* two invocations; upstream results of one cluster, and of two clusters listed
\* in the order rank 2, rank 1
ConcurrentTexts ==
    LET c(rk) == [rank |-> Num(rk), total_score |-> Num(1), member_ids |-> <<1>>,
                  size |-> Undef, sources_count |-> Num(1),
                  freshness_score |-> Num(0), market_impact_score |-> Num(0)]
    IN  {[kind |-> "object", len |-> 4, clusters |-> <<c(1)>>,
          top_summaries |-> <<[cluster_rank |-> Num(1)]>>],
         [kind |-> "object", len |-> 4, clusters |-> <<c(2), c(1)>>,
          top_summaries |-> <<[cluster_rank |-> Num(1)]>>]}

ConcurrentInputs ==
    [invs |-> {1, 2},
     requests |-> {q \in Requests : ~q.cronRequired /\ q.header = "absent"
                                     /\ q.topN = Undef},
     texts |-> ConcurrentTexts]

ConcurrentInit ==
    /\ StoreInit
    /\ inv = [i \in ConcurrentInputs.invs |-> InvInit]
    /\ articles = {}
    /\ run = <<>>

ConcurrentNext ==
    /\ \E i \in ConcurrentInputs.invs : POST(i, ConcurrentInputs)
    /\ UNCHANGED ingestVars

SpecConcurrent == ConcurrentInit /\ [][ConcurrentNext]_vars

\* the rows a step appended to a run-keyed table
Appended(old, new) == SubSeq(new, Len(old) + 1, Len(new))

\* a row of a run-keyed table belongs to invocation v: it carries v's run id,
\* and its cluster id, when it has one, is one of the ids v captured
OwnRow(v, row) ==
    /\ row.run_id = v.runId
    /\ row.cluster_id = NoId \/ \E k \in 1..Len(v.ids) : row.cluster_id = v.ids[k]

\* C33: with Cluster invocations interleaved in any way, the cluster ids an
\* invocation captured are the ids of the cluster rows its own insert added,
\* no two invocations hold a common cluster id or run id, and every
\* membership, ranked entry, top selection and summary row an invocation
\* writes carries that invocation's run id and, when it carries a cluster id,
\* one of that invocation's own.
C33_CrossRunIsolation ==
    /\ [](/\ \A i, j \in DOMAIN inv :
                i # j => /\ IdsOf(i) \cap IdsOf(j) = {}
                         /\ inv[i].runId # NoId => inv[i].runId # inv[j].runId
          /\ \A i \in DOMAIN inv : IdsOf(i) \subseteq {c.id : c \in clusters}
          /\ \A m \in cluster_members : \E i \in DOMAIN inv : m.cluster_id \in IdsOf(i)
          /\ \A i \in DOMAIN inv : inv[i].runId # NoId =>
                \A t \in {clusters_in_run, top_daily_clusters, summaries} :
                   \A n \in 1..Len(t) :
                      t[n].run_id = inv[i].runId => OwnRow(inv[i], t[n]))
    /\ [][\A i \in DOMAIN inv :
             inv'[i] # inv[i] =>
                /\ inv'[i].ids # inv[i].ids =>
                      {inv'[i].ids[k] : k \in 1..Len(inv'[i].ids)} \ {NoId}
                         = {c.id : c \in clusters' \ clusters}
                /\ \A m \in cluster_members' \ cluster_members :
                      m.cluster_id \in IdsOf(i)
                /\ \A n \in 1..Len(Appended(clusters_in_run, clusters_in_run')) :
                      OwnRow(inv[i], Appended(clusters_in_run, clusters_in_run')[n])
                /\ \A n \in 1..Len(Appended(top_daily_clusters, top_daily_clusters')) :
                      OwnRow(inv[i],
                             Appended(top_daily_clusters, top_daily_clusters')[n])
                /\ \A n \in 1..Len(Appended(summaries, summaries')) :
                      OwnRow(inv[i], Appended(summaries, summaries')[n])]_vars

\* C33 witness: two invocations that overlapped (the second created its run
\* before the first inserted its clusters) both recorded a full snapshot.
C33_Witness ==
    /\ \A i \in DOMAIN inv :
          /\ inv[i].pc = "done" /\ inv[i].resp.ok /\ inv[i].resp.runId # NoId
          /\ WrittenBy(i, "members") /\ WrittenBy(i, "summaries")
    /\ DOMAIN inv = {1, 2}
    /\ \E c \in IdsOf(1) : inv[1].runId < inv[2].runId /\ inv[2].runId < c

====
